---------------------------- MODULE Spec2Model ----------------------------
(***************************************************************************)
(* Model of windwords scripture-reference extraction                       *)
(* (src/python/windwords/scripture.py, class Bible).                       *)
(*                                                                         *)
(* Text is a sequence of one-character strings.  Regular expressions are   *)
(* kept as syntax trees and run by a backtracking matcher with the         *)
(* priority rules of Python's re module (leftmost match, alternatives in   *)
(* order, greedy quantifiers), so group captures are computed, not         *)
(* assumed.                                                                *)
(***************************************************************************)
EXTENDS Integers, Sequences, FiniteSets, TLC

----------------------------------------------------------------------------
(* Characters *)

Digits == <<"0", "1", "2", "3", "4", "5", "6", "7", "8", "9">>

LowerLetters ==
  <<"a","b","c","d","e","f","g","h","i","j","k","l","m",
    "n","o","p","q","r","s","t","u","v","w","x","y","z">>

UpperLetters ==
  <<"A","B","C","D","E","F","G","H","I","J","K","L","M",
    "N","O","P","Q","R","S","T","U","V","W","X","Y","Z">>

Range(f) == {f[i] : i \in DOMAIN f}

DigitSet == Range(Digits)

ToLower == [c \in Range(UpperLetters) |->
              LowerLetters[CHOOSE i \in 1..26 : UpperLetters[i] = c]]

ToUpper == [c \in Range(LowerLetters) |->
              UpperLetters[CHOOSE i \in 1..26 : LowerLetters[i] = c]]

(* str.lower() / str.upper() on one character *)
Lower(c) == IF c \in DOMAIN ToLower THEN ToLower[c] ELSE c

Upper(c) == IF c \in DOMAIN ToUpper THEN ToUpper[c] ELSE c

(* the classes \s, \d and \w of the re module *)
IsSpace(c) == c \in {" ", "\n", "\t"}

IsDigit(c) == c \in DigitSet

IsWordChar(c) ==
  c \in DigitSet \cup Range(LowerLetters) \cup Range(UpperLetters) \cup {"_"}

(* "-", en dash and em dash: the class [-–—] *)
(* a dash class of the two long dashes only *)
Dashes_NoHyphen == {"EN_DASH", "EM_DASH"}

Dashes == {"-", "EN_DASH", "EM_DASH"}

----------------------------------------------------------------------------
(* Regular-expression syntax trees *)

Lit(cs) == [k |-> "lit", s |-> cs]

Cls(name) == [k |-> "cls", c |-> name]

Cat(rs) == [k |-> "seq", rs |-> rs]

Alt(rs) == [k |-> "alt", rs |-> rs]

Opt(r) == [k |-> "opt", r |-> r]

Star(r) == [k |-> "star", r |-> r]

(* r{1,n}, greedy *)
Upto(r, n) == [k |-> "upto", r |-> r, n |-> n]

Cap(name, r) == [k |-> "cap", name |-> name, r |-> r]

EndCap(name, from) == [k |-> "endcap", name |-> name, from |-> from]

(* (?=r) *)
Look(r) == [k |-> "look", r |-> r]

(* (?<!a)(?<!b)... for literal a, b: none of the strings may end at pos *)
NotBehind(strs) == [k |-> "notbehind", strs |-> strs]

WordB == [k |-> "wordb"]

Eos == [k |-> "eos"]

NoGroups ==
  [BookTitle |-> <<>>, ChapterNumber |-> <<>>, VerseNumber |-> <<>>,
   EndChapterNumber |-> <<>>, EndVerseNumber |-> <<>>]

Fail == [ok |-> FALSE, pos |-> 0, g |-> NoGroups]

InClass(name, c) ==
  CASE name = "s" -> IsSpace(c)
    [] name = "d" -> IsDigit(c)
    [] name = "colon" -> c = ":"
    [] name = "dash" -> c \in Dashes

(* a comparison that never folds case *)
SameChar_exact(a, b, ic) == a = b

SameChar(a, b, ic) == IF ic THEN Lower(a) = Lower(b) ELSE a = b

(* does the literal cs occur in s at position i *)
LitAt(cs, s, i, ic) ==
  /\ i + Len(cs) - 1 <= Len(s)
  /\ \A j \in 1..Len(cs) : SameChar(cs[j], s[i + j - 1], ic)

(* \b at position i (between s[i-1] and s[i]) *)
BoundaryAt(s, i) ==
  LET before == i > 1 /\ IsWordChar(s[i - 1])
      after == i <= Len(s) /\ IsWordChar(s[i])
  IN before # after

RECURSIVE Flatten(_)
(* the concatenation of a sequence of sequences *)
Flatten(ss) == IF ss = <<>> THEN <<>> ELSE Head(ss) \o Flatten(Tail(ss))

(* the states of sts, each position once, at its first occurrence *)
FirstOfEachPos(sts) ==
  SelectSeq([j \in 1..Len(sts) |->
               [st |-> sts[j],
                first |-> \A h \in 1..(j - 1) : sts[h].pos # sts[j].pos]],
            LAMBDA e : e.first)

(* an alternative that is a literal absent at i cannot match there *)
CanStart(r, s, i, ic) == r.k = "lit" => LitAt(r.s, s, i, ic)

(* the largest and the smallest member of a non-empty set of numbers *)
MaxIn(S) == CHOOSE k \in S : \A h \in S : h <= k

MinIn(S) == CHOOSE k \in S : \A h \in S : k <= h

(* the smallest member of S, 0 for the empty set *)
FirstIn(S) == IF S = {} THEN 0 ELSE MinIn(S)

(* how many characters of class c follow position i, at most n *)
RunLength(c, s, i, n) ==
  MaxIn({k \in 0..n : \A h \in 0..(k - 1) :
           i + h <= Len(s) /\ InClass(c, s[i + h])})

(* the ways \d{1,n} matches when most digits follow: longest first *)
Shorter(st, most) ==
  [j \in 1..most |-> [st EXCEPT !.pos = st.pos + most - j + 1]]

RECURSIVE Ways(_, _, _, _)
RECURSIVE WaysOfEach(_, _, _, _)
(* Every way node n can match at state st, as the sequence of resulting     *)
(* states in the order a backtracking matcher tries them: alternatives left *)
(* to right, greedy quantifiers longest first.                              *)
Ways(n, s, st, ic) ==
  LET i == st.pos
  IN CASE n.k = "lit" ->
            IF LitAt(n.s, s, i, ic)
            THEN <<[st EXCEPT !.pos = i + Len(n.s)]>>
            ELSE <<>>
       [] n.k = "cls" ->
            IF i <= Len(s) /\ InClass(n.c, s[i])
            THEN <<[st EXCEPT !.pos = i + 1]>>
            ELSE <<>>
       [] n.k = "seq" ->
            IF n.rs = <<>> THEN <<st>>
            ELSE LET heads == Ways(Head(n.rs), s, st, ic)
                 IN Flatten([j \in 1..Len(heads) |->
                               Ways(Cat(Tail(n.rs)), s, heads[j], ic)])
       [] n.k = "alt" ->
            WaysOfEach(SelectSeq(n.rs, LAMBDA r : CanStart(r, s, i, ic)),
                       s, st, ic)
       [] n.k = "opt" -> Ways(n.r, s, st, ic) \o <<st>>
       [] n.k = "star" ->
            LET once == SelectSeq(Ways(n.r, s, st, ic),
                                  LAMBDA a : a.pos > i)
            IN Flatten([j \in 1..Len(once) |-> Ways(n, s, once[j], ic)])
               \o <<st>>
       [] n.k = "upto" ->
            Shorter(st, RunLength(n.r.c, s, i, n.n))
       [] n.k = "cap" ->
            LET inner == Ways(n.r, s, st, ic)
            IN [j \in 1..Len(inner) |->
                  [inner[j] EXCEPT !.g = [@ EXCEPT ![n.name] =
                                            SubSeq(s, i, inner[j].pos - 1)]]]
       [] n.k = "look" ->
            IF Ways(n.r, s, st, ic) # <<>> THEN <<st>> ELSE <<>>
       [] n.k = "notbehind" ->
            IF \E b \in n.strs :
                 i - Len(b) >= 1 /\ LitAt(b, s, i - Len(b), ic)
            THEN <<>>
            ELSE <<st>>
       [] n.k = "wordb" -> IF BoundaryAt(s, i) THEN <<st>> ELSE <<>>
       [] n.k = "eos" ->
            IF i = Len(s) + 1 \/ (i = Len(s) /\ s[i] = "\n")
            THEN <<st>>
            ELSE <<>>

(* the ways of each of the nodes rs at st, one node after the other *)
WaysOfEach(rs, s, st, ic) ==
  Flatten([j \in 1..Len(rs) |-> Ways(rs[j], s, st, ic)])

RECURSIVE Run(_, _, _, _)
RECURSIVE TryEach(_, _, _, _, _)
(* The backtracking matcher.  todo is the sequence of nodes still to be     *)
(* matched, st the position and the groups so far.  The result is the first *)
(* complete match in priority order, or Fail.  Sequences, optional groups   *)
(* and captures are entered one node at a time; a quantifier, alternation   *)
(* or leaf offers its ways in order and the first one the rest of the       *)
(* pattern can follow is taken.                                             *)
Run(todo, s, st, ic) ==
  IF todo = <<>> THEN [st EXCEPT !.ok = TRUE]
  ELSE
    LET n == Head(todo)
        rest == Tail(todo)
    IN CASE n.k = "seq" -> Run(n.rs \o rest, s, st, ic)
         [] n.k = "opt" ->
              LET a == Run(<<n.r>> \o rest, s, st, ic)
              IN IF a.ok THEN a ELSE Run(rest, s, st, ic)
         [] n.k = "cap" ->
              Run(<<n.r, EndCap(n.name, st.pos)>> \o rest, s, st, ic)
         [] n.k = "endcap" ->
              Run(rest, s,
                  [st EXCEPT !.g = [@ EXCEPT ![n.name] =
                                      SubSeq(s, n.from, st.pos - 1)]], ic)
         [] OTHER ->
              TryEach(FirstOfEachPos(Ways(n, s, st, ic)), rest, s, 1, ic)

(* the first of the ways from the j-th on that the rest can follow *)
TryEach(ways, rest, s, j, ic) ==
  IF j > Len(ways) THEN Fail
  ELSE LET a == Run(rest, s, ways[j].st, ic)
       IN IF a.ok THEN a ELSE TryEach(ways, rest, s, j + 1, ic)

(* pattern.match(s, i - 1): the match of r starting exactly at i, or Fail *)
MatchAt(r, s, i, ic) ==
  Run(<<r>>, s, [ok |-> FALSE, pos |-> i, g |-> NoGroups], ic)

(* the match m found at start j, NoMatch for j = 0 *)
NoMatch == [ok |-> FALSE, pos |-> 0, g |-> NoGroups, from |-> 0]

Found(m, j) == [ok |-> TRUE, pos |-> m.pos, g |-> m.g, from |-> j]

MatchFrom(r, s, j, ic) ==
  IF j = 0 THEN NoMatch ELSE Found(MatchAt(r, s, j, ic), j)

(* pattern.search(s, i - 1): the leftmost match starting at i or later *)
SearchFrom(r, s, i, ic) ==
  MatchFrom(r, s,
            FirstIn({j \in i..(Len(s) + 1) : MatchAt(r, s, j, ic).ok}), ic)

RECURSIVE FindIter(_, _, _, _)
RECURSIVE MatchesAfter(_, _, _, _)
(* re.finditer: the successive non-overlapping matches, left to right *)
FindIter(r, s, i, ic) == MatchesAfter(r, s, SearchFrom(r, s, i, ic), ic)

(* the match m and those after it; after an empty match the scan moves on  *)
(* by one character                                                        *)
MatchesAfter(r, s, m, ic) ==
  IF ~m.ok THEN <<>>
  ELSE <<m>> \o FindIter(r, s, IF m.pos = m.from THEN m.pos + 1
                               ELSE m.pos, ic)

----------------------------------------------------------------------------
(* Numbers and strings *)

RECURSIVE Str(_)
(* str(n) for n >= 0 *)
Str(n) == IF n < 10 THEN <<Digits[n + 1]>>
          ELSE Str(n \div 10) \o <<Digits[(n % 10) + 1]>>

DigitVal(c) == (CHOOSE i \in 1..10 : Digits[i] = c) - 1

RECURSIVE ParseInt(_)
(* int(s) for a non-empty string of digits *)
ParseInt(s) == IF Len(s) = 1 THEN DigitVal(s[1])
               ELSE 10 * ParseInt(SubSeq(s, 1, Len(s) - 1)) + DigitVal(s[Len(s)])

RECURSIVE Join(_, _)
(* sep.join(parts) *)
Join(parts, sep) ==
  IF parts = <<>> THEN <<>>
  ELSE IF Len(parts) = 1 THEN parts[1]
  ELSE parts[1] \o sep \o Join(Tail(parts), sep)

RECURSIVE Replace(_, _, _)
RECURSIVE ReplaceFrom(_, _, _, _)
(* s.replace(old, new): every non-overlapping occurrence, left to right *)
Replace(s, old, new) ==
  IF old = <<>> THEN s
  ELSE ReplaceFrom(s, old, new,
                   FirstIn({i \in 1..Len(s) : LitAt(old, s, i, FALSE)}))

(* the replacement of the occurrence at i and of those after it *)
ReplaceFrom(s, old, new, i) ==
  IF i = 0 THEN s
  ELSE SubSeq(s, 1, i - 1) \o new
       \o Replace(SubSeq(s, i + Len(old), Len(s)), old, new)

RECURSIVE Split(_, _)
(* s.split(sep) for a one-character sep *)
Split(s, sep) ==
  IF \A i \in 1..Len(s) : s[i] # sep THEN <<s>>
  ELSE LET i == CHOOSE j \in 1..Len(s) :
                  s[j] = sep /\ \A h \in 1..(j - 1) : s[h] # sep
       IN <<SubSeq(s, 1, i - 1)>> \o Split(SubSeq(s, i + 1, Len(s)), sep)

(* max(ns) *)
MaxOf(ns) == MaxIn(Range(ns))

(* the words of length longest, then those one shorter, and so on *)
LongestFirst(words, longest) ==
  Flatten([d \in 1..(longest + 1) |->
             SelectSeq(words, LAMBDA w : Len(w) = longest + 1 - d)])

(* sorted(words, key=len, reverse=True): stable, so the longest words come *)
(* first and words of one length keep their order                          *)
SortByLenDesc(words) ==
  IF words = <<>> THEN <<>>
  ELSE LongestFirst(words, MaxOf([i \in 1..Len(words) |-> Len(words[i])]))

(* the alternatives w1|w2|... of an alternation of words *)
Lits(words) == [i \in 1..Len(words) |-> Lit(words[i])]

(* the alternation in the order the words are given *)
_words_to_regex_unsorted(words) == Lits(words)

(* Bible._words_to_regex: the alternation w1|w2|... longest word first *)
_words_to_regex(words) == Lits(SortByLenDesc(words))

(* num2words: the English words below twenty, and the tens *)
SmallWords ==
  << <<"o","n","e">>, <<"t","w","o">>, <<"t","h","r","e","e">>,
     <<"f","o","u","r">>, <<"f","i","v","e">>, <<"s","i","x">>,
     <<"s","e","v","e","n">>, <<"e","i","g","h","t">>, <<"n","i","n","e">>,
     <<"t","e","n">>, <<"e","l","e","v","e","n">>,
     <<"t","w","e","l","v","e">>, <<"t","h","i","r","t","e","e","n">>,
     <<"f","o","u","r","t","e","e","n">>, <<"f","i","f","t","e","e","n">>,
     <<"s","i","x","t","e","e","n">>,
     <<"s","e","v","e","n","t","e","e","n">>,
     <<"e","i","g","h","t","e","e","n">>,
     <<"n","i","n","e","t","e","e","n">> >>

TensWords ==
  << <<"t","e","n">>, <<"t","w","e","n","t","y">>,
     <<"t","h","i","r","t","y">>, <<"f","o","r","t","y">>,
     <<"f","i","f","t","y">>, <<"s","i","x","t","y">>,
     <<"s","e","v","e","n","t","y">>, <<"e","i","g","h","t","y">>,
     <<"n","i","n","e","t","y">> >>

HundredWord == <<"h","u","n","d","r","e","d">>

AndWord == <<"a","n","d">>

RECURSIVE num2words(_)
(* num2words(n) for 1 <= n <= 999, e.g. "thirty-four", "one hundred and one" *)
num2words(n) ==
  IF n < 20 THEN SmallWords[n]
  ELSE IF n < 100
       THEN IF n % 10 = 0 THEN TensWords[n \div 10]
            ELSE TensWords[n \div 10] \o <<"-">> \o SmallWords[n % 10]
  ELSE IF n % 100 = 0 THEN SmallWords[n \div 100] \o <<" ">> \o HundredWord
       ELSE SmallWords[n \div 100] \o <<" ">> \o HundredWord \o <<" ">>
            \o AndWord \o <<" ">> \o num2words(n % 100)

(* the value of one number word, 0 for "and" *)
WordVal(w) ==
  IF \E i \in 1..19 : SmallWords[i] = w
  THEN CHOOSE i \in 1..19 : SmallWords[i] = w
  ELSE IF \E i \in 1..9 : TensWords[i] = w
       THEN 10 * (CHOOSE i \in 1..9 : TensWords[i] = w)
       ELSE 0

RECURSIVE SumWords(_, _)
SumWords(ws, acc) ==
  IF ws = <<>> THEN acc
  ELSE IF Head(ws) = HundredWord THEN SumWords(Tail(ws), acc * 100)
       ELSE SumWords(Tail(ws), acc + WordVal(Head(ws)))

(* words2num(phrase): the number a spelled-out phrase denotes *)
words2num(phrase) == SumWords(Split(phrase, " "), 0)

----------------------------------------------------------------------------
(* The book table of scriptures.texts.kjv1611.KingJames1611, the parent     *)
(* class of Bible: an ordered mapping key -> (name, abbreviation, regex,    *)
(* verse counts per chapter).  The model carries these books of the table.  *)

None == 0 - 1

Book(key, name, abbr, re, vc) ==
  [key |-> key, name |-> name, abbr |-> abbr, re |-> re, vc |-> vc]

(* (?<!(?:1|2|3|I)\s)(?<!(?:1|2|3|I)): not preceded by a book numeral *)
NumeralPrefixes ==
  LET nums == {<<"1">>, <<"2">>, <<"3">>, <<"I">>}
  IN nums \cup {n \o <<w>> : n \in nums, w \in {" ", "\n", "\t"}}

KingJames1611 ==
  << Book("exod", <<"E","x","o","d","u","s">>, <<"E","x","o","d">>,
          Cat(<<Lit(<<"E","x","o","d">>), Opt(Lit(<<"u","s">>))>>),
          <<22, 25, 22, 31, 23, 30, 25, 32, 35, 29, 10, 51, 22, 31, 27, 36,
            16, 27, 25, 26, 36, 31, 33, 18, 40, 37, 21, 43, 46, 38, 18, 35,
            23, 35, 35, 38, 29, 31, 43, 38>>),
     Book("song", <<"S","o","n","g"," ","o","f"," ","S","o","l","o","m","o","n">>,
          <<"S","o","n","g">>,
          Cat(<<Lit(<<"S","o","n","g">>),
                Opt(Cat(<<Lit(<<" ","o","f"," ","S","o","l">>), Opt(Lit(<<"o","m","o","n">>))>>))>>),
          <<17, 17, 11, 16, 16, 13, 13, 14>>),
     Book("mark", <<"M","a","r","k">>, <<"M","a","r","k">>,
          Lit(<<"M","a","r","k">>),
          <<45, 28, 35, 41, 43, 56, 37, 38, 50, 52, 33, 44, 37, 72, 47, 20>>),
     Book("john", <<"J","o","h","n">>, <<"J","o","h","n">>,
          Cat(<<NotBehind(NumeralPrefixes), Lit(<<"J","o","h","n">>)>>),
          <<51, 25, 36, 54, 47, 71, 53, 59, 41, 42, 57, 50, 38, 31, 27, 33,
            26, 40, 42, 31, 25>>),
     Book("1tim", <<"I"," ","T","i","m","o","t","h","y">>, <<"1","T","i","m">>,
          Cat(<<Alt(<<Lit(<<"1">>), Lit(<<"I">>)>>), Opt(Cls("s")),
                Lit(<<"T","i","m">>), Opt(Lit(<<"o","t","h","y">>))>>),
          <<20, 15, 16, 16, 25, 21>>),
     Book("2tim", <<"I","I"," ","T","i","m","o","t","h","y">>, <<"2","T","i","m">>,
          Cat(<<Alt(<<Lit(<<"2">>), Lit(<<"I","I">>)>>), Opt(Cls("s")),
                Lit(<<"T","i","m">>), Opt(Lit(<<"o","t","h","y">>))>>),
          <<18, 26, 17, 22>>),
     Book("3john", <<"I","I","I"," ","J","o","h","n">>, <<"3","J","o","h","n">>,
          Cat(<<Alt(<<Lit(<<"3">>), Lit(<<"I","I","I">>)>>), Opt(Cls("s")),
                Lit(<<"J","o","h","n">>)>>),
          <<14>>),
     Book("rev", <<"R","e","v","e","l","a","t","i","o","n"," ","o","f"," ","J","e","s","u","s"," ","C","h","r","i","s","t">>,
          <<"R","e","v">>,
          Cat(<<Lit(<<"R","e","v">>), Opt(Lit(<<"e","l","a","t","i","o","n">>)),
                Opt(Cat(<<Cls("s"),
                          Lit(<<"o","f"," ","J","e","s","u","s"," ","C","h","r","i","s","t">>)>>))>>),
          <<20, 29, 22, 11, 14, 17, 17, 13, 21, 11, 19, 17, 18, 20, 8, 21,
            18, 24, 21, 15, 27, 21>>) >>

(* resources/stopwords.json as get_stopwords() loads it: the English        *)
(* stopwords of NLTK, in their order; the model carries these of them       *)
get_stopwords ==
  << <<"i">>,
     <<"w","e">>,
     <<"h","e">>,
     <<"i","t">>,
     <<"i","s">>,
     <<"a">>,
     <<"a","n">>,
     <<"t","h","e">>,
     <<"a","n","d">>,
     <<"a","s">>,
     <<"o","f">>,
     <<"a","t">>,
     <<"t","h","r","o","u","g","h">>,
     <<"t","o">>,
     <<"i","n">>,
     <<"o","n">>,
     <<"t","h","e","n">>,
     <<"s","o">>,
     <<"s">>,
     <<"t">>,
     <<"c","a","n">>,
     <<"m">>,
     <<"o">> >>

_CHAPTER_WORDS == <<<<"c","h","a","p","t","e","r">>, <<"c","h","a","p","t","e","r","s">>>>

_VERSE_WORDS == <<<<"v","e","r","s","e">>, <<"v","e","r","s","e","s">>>>

(* Bible.alternate_book_names *)
alternate_book_names ==
  << Book("song_alt1", <<"S","o","n","g"," ","o","f"," ","S","o","l","o","m","o","n">>,
          <<"S","o","n","g">>,
          Cat(<<Lit(<<"S","o","n","g">>), Opt(Lit(<<"s">>)),
                Opt(Cat(<<Lit(<<" ","o","f"," ","S","o","n">>), Opt(Lit(<<"g","s">>))>>))>>),
          <<17, 17, 11, 16, 16, 13, 13, 14>>),
     Book("song_alt2", <<"S","o","n","g"," ","o","f"," ","S","o","l","o","m","o","n">>,
          <<"S","o","n","g">>,
          Cat(<<Lit(<<"C","a","n","t">>),
                Opt(Cat(<<Lit(<<"i","c","l","e">>),
                          Opt(Cat(<<Lit(<<" ","o","f"," ","C","a","n","t">>),
                                    Opt(Lit(<<"i","c","l","e","s">>))>>))>>))>>),
          <<17, 17, 11, 16, 16, 13, 13, 14>>) >>

----------------------------------------------------------------------------
(* class Bible(KingJames1611) *)

(* an update that adds no entry *)
DictUpdate_none(d, entries) == d

RECURSIVE DictUpdate(_, _)
(* dict.update(entries): an existing key keeps its place, a new key is      *)
(* appended                                                                 *)
DictUpdate(d, entries) ==
  IF entries = <<>> THEN d
  ELSE LET e == Head(entries)
           d2 == IF \E i \in 1..Len(d) : d[i].key = e.key
                 THEN [i \in 1..Len(d) |->
                         IF d[i].key = e.key THEN e ELSE d[i]]
                 ELSE Append(d, e)
       IN DictUpdate(d2, Tail(entries))

(* the (source, target) pairs of _update_book_numeral_regex *)
NumeralForms ==
  << << <<Lit(<<"1">>), Lit(<<"I">>)>>,
        <<Lit(<<"1">>), Lit(<<"I">>), Lit(<<"1","s","t">>), Lit(<<"o","n","e">>), Lit(<<"f","i","r","s","t">>)>> >>,
     << <<Lit(<<"2">>), Lit(<<"I","I">>)>>,
        <<Lit(<<"2">>), Lit(<<"I","I">>), Lit(<<"2","n","d">>), Lit(<<"t","w","o">>), Lit(<<"s","e","c","o","n","d">>)>> >>,
     << <<Lit(<<"3">>), Lit(<<"I","I","I">>)>>,
        <<Lit(<<"3">>), Lit(<<"I","I","I">>), Lit(<<"3","r","d">>), Lit(<<"t","h","r","e","e">>), Lit(<<"t","h","i","r","d">>)>> >> >>

(* a replacement that turns a rewritten numeral group back into the      *)
(* group it was made from                                                  *)
ReplaceNumerals_Toggle(re) ==
  IF re.k = "seq" /\ re.rs[1].k = "alt"
  THEN LET p == CHOOSE q \in 1..Len(NumeralForms) :
                  re.rs[1].rs \in {NumeralForms[q][1], NumeralForms[q][2]}
       IN [re EXCEPT !.rs[1] =
             IF re.rs[1].rs = NumeralForms[p][1]
             THEN Alt(NumeralForms[p][2]) ELSE Alt(NumeralForms[p][1])]
  ELSE re

RECURSIVE ReplaceNumerals(_)
(* regex.replace(source, target) for the three pairs, anywhere in regex *)
ReplaceNumerals(re) ==
  CASE re.k = "alt" ->
         IF \E p \in 1..Len(NumeralForms) : re.rs = NumeralForms[p][1]
         THEN Alt(NumeralForms[CHOOSE p \in 1..Len(NumeralForms) :
                                 re.rs = NumeralForms[p][1]][2])
         ELSE Alt([i \in 1..Len(re.rs) |-> ReplaceNumerals(re.rs[i])])
    [] re.k = "seq" ->
         Cat([i \in 1..Len(re.rs) |-> ReplaceNumerals(re.rs[i])])
    [] re.k = "opt" -> Opt(ReplaceNumerals(re.r))
    [] OTHER -> re

(* a table whose numeral groups are left as they are *)
_update_book_numeral_regex_none(bks) == bks

(* Bible._update_book_numeral_regex *)
_update_book_numeral_regex(bks) ==
  [i \in 1..Len(bks) |-> [bks[i] EXCEPT !.re = ReplaceNumerals(@)]]

(* the book regexes last book first *)
book_re_string_reversed(bks) ==
  [i \in 1..Len(bks) |-> bks[Len(bks) + 1 - i].re]

(* Text.__init__: book_re_string = '|'.join(b[2] for b in books.values()),  *)
(* kept as the sequence of alternatives                                     *)
book_re_string(bks) == [i \in 1..Len(bks) |-> bks[i].re]

maximum_chapter_count(bks) == MaxOf([i \in 1..Len(bks) |-> Len(bks[i].vc)])

maximum_verse_count(bks) == MaxOf([i \in 1..Len(bks) |-> MaxOf(bks[i].vc)])

Space == Cls("s")

Digits3 == Upto(Cls("d"), 3)

(* the pattern with the colon between chapter and verse required, as in    *)
(* \s*:\s*                                                               *)
ScripturePattern_ColonRequired(book_re, chapter_re, verse_re) ==
  Cat(<<
    WordB, Cap("BookTitle", Alt(book_re)), Star(Space),
    Star(Alt(chapter_re \o <<Space>>)),
    Cap("ChapterNumber", Digits3),
    Star(Alt(verse_re \o <<Space>>)),
    Opt(Cat(<<Star(Space), Cls("colon"), Star(Space),
              Cap("VerseNumber", Digits3)>>)),
    Star(Alt(chapter_re \o <<Space>>)),
    Opt(Cat(<<
      Star(Space), Star(Cls("dash")), Star(Space),
      Opt(Cap("EndChapterNumber",
              Cat(<<Digits3,
                    Look(Cat(<<Star(Space), Cls("colon"),
                               Star(Space)>>))>>))),
      Star(Alt(verse_re \o <<Space>>)),
      Opt(Cat(<<Star(Space), Cls("colon"), Star(Space)>>)),
      Opt(Cap("EndVerseNumber", Digits3))
    >>))
  >>)

(* the pattern of Bible.get_scripture_regex over its three alternations *)
ScripturePattern(book_re, chapter_re, verse_re) ==
  Cat(<<
    WordB, Cap("BookTitle", Alt(book_re)), Star(Space),
    Star(Alt(chapter_re \o <<Space>>)),
    Cap("ChapterNumber", Digits3),
    Star(Alt(verse_re \o <<Space>>)),
    Opt(Cat(<<Star(Space), Star(Cls("colon")), Star(Space),
              Cap("VerseNumber", Digits3)>>)),
    Star(Alt(chapter_re \o <<Space>>)),
    Opt(Cat(<<
      Star(Space), Star(Cls("dash")), Star(Space),
      Opt(Cap("EndChapterNumber",
              Cat(<<Digits3,
                    Look(Cat(<<Star(Space), Cls("colon"),
                               Star(Space)>>))>>))),
      Star(Alt(verse_re \o <<Space>>)),
      Opt(Cat(<<Star(Space), Cls("colon"), Star(Space)>>)),
      Opt(Cap("EndVerseNumber", Digits3))
    >>))
  >>)

(* Bible.get_scripture_regex *)
get_scripture_regex(book_re, sw) ==
  ScripturePattern(book_re, _words_to_regex(_CHAPTER_WORDS \o sw),
                   _words_to_regex(_VERSE_WORDS \o sw))

(* Bible.words_to_numbers_regex *)
words_to_numbers_regex(bks) ==
  LET max_number == MaxOf(<<maximum_chapter_count(bks),
                            maximum_verse_count(bks)>>)
      words == [n \in 1..max_number |->
                  Replace(num2words(n), <<"-">>, <<" ">>)]
  IN Alt(_words_to_regex(words))

(* the strings the matches ms cover in s *)
Matched(ms, s) == [j \in 1..Len(ms) |-> SubSeq(s, ms[j].from, ms[j].pos - 1)]

(* re.findall for a pattern without groups: the matched strings *)
FindAll(r, s, ic) == Matched(FindIter(r, s, 1, ic), s)

RECURSIVE ReplaceWords(_, _)
(* the loop of Bible.extract: one global replace per word found *)
ReplaceWords(text, words) ==
  IF words = <<>> THEN text
  ELSE ReplaceWords(Replace(text, Head(words), Str(words2num(Head(words)))),
                    Tail(words))

(* the text Bible.extract hands to the parent's extract *)
NumbersToDigits(bks, text) ==
  ReplaceWords(text, FindAll(words_to_numbers_regex(bks), text, FALSE))

----------------------------------------------------------------------------
(* scriptures.texts.base.Text: the parent's methods Bible relies on *)

(* Text.get_book: the first book whose regex matches the whole name *)
get_book(bks, name) ==
  FirstIn({i \in 1..Len(bks) :
             MatchAt(Cat(<<bks[i].re, Eos>>), name, 1, TRUE).ok})

(* a reference whose absent end verse is always the start verse *)
Normalized_NoFill(book, chapter, verse, end_chapter, end_verse) ==
  IF verse = None \/ verse = 0
  THEN <<book.name, chapter, 1, chapter, book.vc[chapter]>>
  ELSE IF end_verse = None \/ end_verse = 0
  THEN <<book.name, chapter, verse, end_chapter, verse>>
  ELSE <<book.name, chapter, verse, end_chapter, end_verse>>

(* the reference as normalize_reference returns it *)
Normalized(book, chapter, verse, end_chapter, end_verse) ==
  IF verse = None \/ verse = 0
  THEN <<book.name, chapter, 1, chapter, book.vc[chapter]>>
  ELSE IF end_verse = None \/ end_verse = 0
  THEN <<book.name, chapter, verse, end_chapter,
         IF end_chapter # chapter THEN book.vc[end_chapter] ELSE verse>>
  ELSE <<book.name, chapter, verse, end_chapter, end_verse>>

(* the range checks of normalize_reference *)
OutOfRange(book, chapter, verse, end_chapter, end_verse) ==
  \/ chapter < 1 \/ chapter > Len(book.vc)
  \/ (verse # None /\ (verse < 1 \/ verse > book.vc[chapter]))
  \/ end_chapter < 1 \/ end_chapter < chapter
  \/ end_chapter > Len(book.vc)
  \/ (end_verse # None
      /\ (end_verse < 1 \/ end_verse > book.vc[end_chapter]))

Checked(book, chapter, verse, end_chapter, end_verse) ==
  IF OutOfRange(book, chapter, verse, end_chapter, end_verse)
  THEN [st |-> "invalid", ref |-> <<>>]
  ELSE IF end_verse # None /\ chapter = end_chapter /\ verse = None
  THEN [st |-> "TypeError", ref |-> <<>>]
  ELSE IF end_verse # None /\ chapter = end_chapter /\ end_verse < verse
  THEN [st |-> "invalid", ref |-> <<>>]
  ELSE [st |-> "ok",
        ref |-> Normalized(book, chapter, verse, end_chapter, end_verse)]

(* normalize_reference for book number b (0: no book matches the name); a  *)
(* book of one chapter takes a lone number as the verse                    *)
NormalizeIn(bks, b, chapter0, verse0, end_chapter0, end_verse) ==
  IF b = 0 THEN [st |-> "TypeError", ref |-> <<>>]
  ELSE IF Len(bks[b].vc) = 1 /\ verse0 = None /\ end_chapter0 = None
  THEN Checked(bks[b], 1, chapter0, 1, end_verse)
  ELSE Checked(bks[b], chapter0, verse0,
               IF end_chapter0 = None THEN chapter0 ELSE end_chapter0,
               end_verse)

(* Text.normalize_reference on numbers (None for an absent one): the       *)
(* outcome is "ok" with the five-value reference, "invalid"                 *)
(* (InvalidReferenceException) or "TypeError"                               *)
normalize_reference(bks, name, chapter0, verse0, end_chapter0, end_verse) ==
  NormalizeIn(bks, get_book(bks, name), chapter0, verse0, end_chapter0,
              end_verse)

ToInt(s) == IF s = <<>> THEN None ELSE ParseInt(s)

(* the reference of one match: normalize_reference on its five groups *)
MatchReference(bks, m) ==
  normalize_reference(bks, m.g.BookTitle, ToInt(m.g.ChapterNumber),
                      ToInt(m.g.VerseNumber), ToInt(m.g.EndChapterNumber),
                      ToInt(m.g.EndVerseNumber))

Sp == <<" ">>

(* the string of the normalized reference n of the given book *)
RefString(n, book) ==
  IF n[2] = n[4]
  THEN IF Len(book.vc) = 1
       THEN IF n[3] = n[5] THEN n[1] \o Sp \o Str(n[3])
            ELSE n[1] \o Sp \o Str(n[3]) \o <<"-">> \o Str(n[5])
       ELSE IF n[3] = 1 /\ n[5] = book.vc[n[2]]
            THEN n[1] \o Sp \o Str(n[2])
       ELSE IF n[3] = n[5]
            THEN n[1] \o Sp \o Str(n[2]) \o <<":">> \o Str(n[3])
       ELSE n[1] \o Sp \o Str(n[2]) \o <<":">> \o Str(n[3])
            \o <<"-">> \o Str(n[5])
  ELSE IF n[3] = 1 /\ n[5] = book.vc[n[4]]
       THEN n[1] \o Sp \o Str(n[2]) \o <<"-">> \o Str(n[4])
  ELSE n[1] \o Sp \o Str(n[2]) \o <<":">> \o Str(n[3]) \o <<"-">>
       \o Str(n[4]) \o <<":">> \o Str(n[5])

RefStringIn(bks, n) == RefString(n, bks[get_book(bks, n[1])])

(* Text.reference_to_string *)
reference_to_string(bks, r) ==
  RefStringIn(bks, normalize_reference(bks, r[1], r[2], r[3], r[4],
                                       r[5]).ref)

(* the references of the matches ms *)
References(bks, ms) == [j \in 1..Len(ms) |-> MatchReference(bks, ms[j])]

RefsOf(ok) == [j \in 1..Len(ok) |-> ok[j].ref]

(* the outcomes rs collected: invalid references are skipped, an error     *)
(* other than InvalidReferenceException ends the call                      *)
Collected(rs) ==
  IF \E j \in 1..Len(rs) : rs[j].st = "TypeError"
  THEN [error |-> "TypeError", refs |-> <<>>]
  ELSE [error |-> "none",
        refs |-> RefsOf(SelectSeq(rs, LAMBDA r : r.st = "ok"))]

(* Text.extract *)
TextExtract(bks, scripture_re, text) ==
  Collected(References(bks, FindIter(scripture_re, text, 1, TRUE)))

Extracted(digits, found) ==
  [normalized |-> digits, error |-> found.error, refs |-> found.refs]

ExtractDigits(bks, scripture_re, digits) ==
  Extracted(digits, TextExtract(bks, scripture_re, digits))

(* Bible.extract; normalized is the text after the number-word loop *)
extract(bks, scripture_re, text) ==
  ExtractDigits(bks, scripture_re, NumbersToDigits(bks, text))

----------------------------------------------------------------------------
(* Inputs.  A request describes one text handed to extract; Render builds   *)
(* the text.                                                                *)

MaxChapterFill == 2

MaxVerseFill == 2

MaxVerse == 3

MapChars(f(_), s) == [i \in 1..Len(s) |-> f(s[i])]

(* alternating case: mArK *)
MixedCase(s) == [i \in 1..Len(s) |-> IF i % 2 = 0 THEN Upper(s[i])
                                     ELSE Lower(s[i])]

Casings == {"lower", "upper", "title", "mixed"}

Casing(s, how) ==
  CASE how = "lower" -> MapChars(Lower, s)
    [] how = "upper" -> MapChars(Upper, s)
    [] how = "title" -> s
    [] how = "mixed" -> MixedCase(s)

BookIds == 1..Len(KingJames1611)

(* the book's name in lower case, as a speaker would say it *)
Spoken(b) == MapChars(Lower, KingJames1611[b].name)

(* c:v *)
ColonRef(c, v) == Str(c) \o <<":">> \o Str(v)

(* is chapter c, verse v in the book's table *)
InTable(b, c, v) ==
  /\ c \in 1..Len(KingJames1611[b].vc)
  /\ v \in 1..KingJames1611[b].vc[c]

SomeVerses == (1..MaxVerse) \cup {16}

(* the books whose regex starts with a numeral group, with the numeral's    *)
(* five spellings and the rest of the name                                  *)
NumeralBooks ==
  << [b |-> 5, rest |-> <<"t","i","m","o","t","h","y">>,
      forms |-> <<<<"1">>, <<"I">>, <<"o","n","e">>, <<"f","i","r","s","t">>, <<"1","s","t">>>>],
     [b |-> 6, rest |-> <<"t","i","m","o","t","h","y">>,
      forms |-> <<<<"2">>, <<"I","I">>, <<"t","w","o">>, <<"s","e","c","o","n","d">>, <<"2","n","d">>>>],
     [b |-> 7, rest |-> <<"j","o","h","n">>,
      forms |-> <<<<"3">>, <<"I","I","I">>, <<"t","h","r","e","e">>, <<"t","h","i","r","d">>, <<"3","r","d">>>>] >>

(* the spellings of Song of Solomon in test_reference_alternate_book_name *)
SongSpellings ==
  << <<"S","o","n","g","s">>, <<"S","o","n","g"," ","o","f"," ","S","o","n">>, <<"S","o","n","g"," ","o","f"," ","S","o","l">>, <<"S","o","n","g"," ","o","f"," ","S","o","l","o","m","o","n">>,
     <<"S","o","n","g"," ","o","f"," ","S","o","n","g","s">>, <<"C","a","n","t"," ","o","f"," ","C","a","n","t">>, <<"C","a","n","t","i","c","l","e"," ","o","f"," ","C","a","n","t","i","c","l","e","s">> >>

SongId == CHOOSE b \in BookIds : KingJames1611[b].key = "song"

W_chapter == <<"c","h","a","p","t","e","r">>

W_verse == <<"v","e","r","s","e">>

W_verses == <<"v","e","r","s","e","s">>

W_through == <<"t","h","r","o","u","g","h">>

W_to == <<"t","o">>

W_and == <<"a","n","d">>

W_then == <<"t","h","e","n">>

W_in == <<"i","n">>

W_a == <<"a">>

(* filler tokens tried between book and chapter, and chapter and verse *)
ChapterTokens == {W_chapter, W_in}

VerseTokens == {W_verse, W_a, W_then}

SeqsUpTo(S, n) == UNION {[1..k -> S] : k \in 0..n}

NumberWords == {Replace(num2words(n), <<"-">>, <<" ">>) : n \in {4, 8, 18, 34}}

(* single references, each with the string extract returns for it alone *)
Phrases ==
  << [text |-> <<"m","a","r","k"," ","8",":","3","4">>, canon |-> <<"M","a","r","k"," ","8",":","3","4">>],
     [text |-> <<"e","x","o","d","u","s"," ","2",":","3","-","5">>, canon |-> <<"E","x","o","d","u","s"," ","2",":","3","-","5">>],
     [text |-> <<"2"," ","t","i","m","o","t","h","y"," ","3",":","1","6">>, canon |-> <<"I","I"," ","T","i","m","o","t","h","y"," ","3",":","1","6">>],
     [text |-> <<"r","e","v","e","l","a","t","i","o","n"," ","c","h","a","p","t","e","r"," ","2"," ","v","e","r","s","e"," ","2","0">>,
      canon |-> <<"R","e","v","e","l","a","t","i","o","n"," ","o","f"," ","J","e","s","u","s"," ","C","h","r","i","s","t"," ","2",":","2","0">>] >>

WordSeparators == {<<" ","a","n","d"," ">>, <<" ","t","h","e","n"," ">>, <<" ","a","n","d"," ","a","l","s","o"," ">>}

Separators == WordSeparators \cup {<<","," ">>}

NoReq ==
  [fam |-> "none", b |-> 0, form |-> "", n |-> <<>>, w1 |-> <<>>,
   w2 |-> <<>>]

Req(fam, b, form, n, w1, w2) ==
  [fam |-> fam, b |-> b, form |-> form, n |-> n, w1 |-> w1, w2 |-> w2]

CaseRequests ==
  {Req("case", b, how, <<c, v>>, <<>>, <<>>) :
     b \in BookIds, how \in Casings, c \in {1}, v \in SomeVerses}

NumeralRequests ==
  {Req("numeral", k, "", <<f, c, v>>, <<>>, <<>>) :
     k \in 1..Len(NumeralBooks), f \in 1..5, c \in {1}, v \in SomeVerses}

AliasRequests ==
  {Req("alias", SongId, "", <<k, c, v>>, <<>>, <<>>) :
     k \in 1..Len(SongSpellings), c \in {1, 8}, v \in SomeVerses \ {16}}

VerseRangeForms == {"colon-dash", "space-dash", "spaces", "words"}

VerseRangeRequests ==
  {Req("verse_range", b, form, <<c, v1, v2>>, <<>>, <<>>) :
     b \in {1, 4}, form \in VerseRangeForms, c \in {2, 12},
     v1 \in SomeVerses, v2 \in SomeVerses}

ChapterRangeForms == {"colon-dash", "space", "words"}

ChapterRangeRequests ==
  {Req("chapter_range", b, form, <<c1, v1, c2, v2>>, <<>>, <<>>) :
     b \in {1, 4}, form \in ChapterRangeForms, c1 \in {1}, v1 \in {2},
     c2 \in {3}, v2 \in {4, 16}}

FillRequests ==
  {Req("fill", 3, form, <<8, 34>>, w1, w2) :
     form \in {"spaced", "raw"},
     w1 \in SeqsUpTo(ChapterTokens, MaxChapterFill),
     w2 \in SeqsUpTo(VerseTokens, MaxVerseFill)}

NumberRequests ==
  {Req("numbers", 3, "", <<>>, w1, w2) :
     w1 \in NumberWords, w2 \in NumberWords}

TwoRequests ==
  {Req("two", 0, "", <<i, j>>, sep, <<>>) :
     i \in 1..Len(Phrases), j \in 1..Len(Phrases), sep \in Separators}

(* a book and a chapter and nothing else, as in test_reference_chapter *)
ChapterRequests ==
  {Req("chapter", b, "", <<c>>, <<>>, <<>>) :
     b \in BookIds, c \in {1, 2, 8}}

(* book, chapter and verse without a colon, and with one *)
NoColonRequests ==
  {Req("no_colon", b, form, <<c, v>>, <<>>, <<>>) :
     b \in BookIds, form \in {"space", "colon"}, c \in {1, 8},
     v \in {2, 34}}

(* spelled-out numbers beyond every chapter and verse count *)
LargeNumberWords ==
  {<<"t","w","o"," ","h","u","n","d","r","e","d">>,
   <<"o","n","e"," ","t","h","o","u","s","a","n","d">>,
   <<"n","i","n","e"," ","h","u","n","d","r","e","d">>}

LargeNumberRequests ==
  {Req("large_number", b, form, <<>>, w, <<>>) :
     b \in {3, 4}, form \in {"after", "alone"}, w \in LargeNumberWords}

(* a range whose tail names an end chapter and a colon but no end verse *)
DanglingRequests ==
  {Req("dangling", b, form, <<c1, v1, c2>>, <<>>, <<>>) :
     b \in {1, 4}, form \in {"tight", "spaced"}, c1 \in {1, 2},
     v1 \in {2, 16}, c2 \in {3, 12}}

(* a chapter, then the word chapter and a second number *)
ChapterWordRequests ==
  {Req("chapter_word", b, "", <<c, n>>, <<>>, <<>>) :
     b \in {3, 4}, c \in {1, 8}, n \in {5, 99}}

(* a chapter and a verse of which one may lie outside the book's table *)
BoundsRequests ==
  {Req("bounds", b, "", <<c, v>>, <<>>, <<>>) :
     b \in {3, 6}, c \in {0, 4, 16, 17}, v \in {0, 20, 22, 99}}

Requests ==
  CaseRequests \cup NumeralRequests \cup AliasRequests
  \cup VerseRangeRequests \cup ChapterRangeRequests \cup FillRequests
  \cup NumberRequests \cup TwoRequests \cup ChapterRequests
  \cup NoColonRequests \cup LargeNumberRequests \cup DanglingRequests
  \cup ChapterWordRequests \cup BoundsRequests

SpacedWords(ws) == Flatten([i \in 1..Len(ws) |-> ws[i] \o Sp])

(* the four spellings of a verse range in test_reference_multi_verse etc. *)
RenderVerseRange(r) ==
  LET c == Str(r.n[1])
      v1 == Str(r.n[2])
      v2 == Str(r.n[3])
  IN CASE r.form = "colon-dash" ->
            Spoken(r.b) \o Sp \o c \o <<":">> \o v1 \o <<"-">> \o v2
       [] r.form = "space-dash" ->
            Spoken(r.b) \o Sp \o c \o Sp \o v1 \o <<"-">> \o v2
       [] r.form = "spaces" ->
            Spoken(r.b) \o Sp \o c \o Sp \o v1 \o Sp \o v2
       [] r.form = "words" ->
            Spoken(r.b) \o Sp \o W_chapter \o Sp \o c \o Sp
            \o W_verses \o Sp \o v1 \o Sp \o W_through \o Sp
            \o W_to \o Sp \o v2

(* the three spellings of a chapter range in test_reference_multi_chapter *)
RenderChapterRange(r) ==
  LET a == ColonRef(r.n[1], r.n[2])
      z == ColonRef(r.n[3], r.n[4])
  IN CASE r.form = "colon-dash" ->
            Spoken(r.b) \o Sp \o a \o <<"-">> \o z
       [] r.form = "space" -> Spoken(r.b) \o Sp \o a \o Sp \o z
       [] r.form = "words" ->
            Spoken(r.b) \o Sp \o W_chapter \o Sp \o Str(r.n[1])
            \o Sp \o W_verse \o Sp \o Str(r.n[2]) \o Sp
            \o W_through \o Sp \o W_to \o Sp \o W_chapter \o Sp
            \o Str(r.n[3]) \o Sp \o W_verse \o Sp \o Str(r.n[4])

(* filler tokens between book and chapter and between chapter and verse:    *)
(* as words, each followed by a space, or raw, one after the other          *)
RenderFill(r) ==
  IF r.form = "spaced"
  THEN Spoken(r.b) \o Sp \o SpacedWords(r.w1) \o Str(r.n[1]) \o Sp
       \o SpacedWords(r.w2) \o Str(r.n[2])
  ELSE Spoken(r.b) \o Sp \o Flatten(r.w1) \o Str(r.n[1]) \o Sp
       \o Flatten(r.w2) \o Str(r.n[2])

Render(r) ==
  CASE r.fam = "case" ->
         Casing(KingJames1611[r.b].name, r.form) \o Sp
         \o ColonRef(r.n[1], r.n[2])
    [] r.fam = "numeral" ->
         NumeralBooks[r.b].forms[r.n[1]] \o Sp \o NumeralBooks[r.b].rest
         \o Sp \o ColonRef(r.n[2], r.n[3])
    [] r.fam = "alias" ->
         SongSpellings[r.n[1]] \o Sp \o ColonRef(r.n[2], r.n[3])
    [] r.fam = "verse_range" -> RenderVerseRange(r)
    [] r.fam = "chapter_range" -> RenderChapterRange(r)
    [] r.fam = "fill" -> RenderFill(r)
    [] r.fam = "numbers" ->
         Spoken(r.b) \o Sp \o r.w1 \o Sp \o W_verse \o Sp \o r.w2
    [] r.fam = "two" ->
         Phrases[r.n[1]].text \o r.w1 \o Phrases[r.n[2]].text
    [] r.fam = "chapter" -> Spoken(r.b) \o Sp \o Str(r.n[1])
    [] r.fam = "no_colon" ->
         IF r.form = "colon"
         THEN Spoken(r.b) \o Sp \o ColonRef(r.n[1], r.n[2])
         ELSE Spoken(r.b) \o Sp \o Str(r.n[1]) \o Sp \o Str(r.n[2])
    [] r.fam = "large_number" ->
         IF r.form = "alone" THEN r.w1
         ELSE Spoken(r.b) \o Sp \o ColonRef(1, 2) \o Sp \o r.w1
    [] r.fam = "dangling" ->
         IF r.form = "tight"
         THEN Spoken(r.b) \o Sp \o ColonRef(r.n[1], r.n[2]) \o <<"-">>
              \o Str(r.n[3]) \o <<":">>
         ELSE Spoken(r.b) \o Sp \o ColonRef(r.n[1], r.n[2])
              \o <<" ","-"," ">> \o Str(r.n[3]) \o <<" ",":">>
    [] r.fam = "chapter_word" ->
         Spoken(r.b) \o Sp \o Str(r.n[1]) \o Sp \o W_chapter \o Sp
         \o Str(r.n[2])
    [] r.fam = "bounds" -> Spoken(r.b) \o Sp \o ColonRef(r.n[1], r.n[2])

----------------------------------------------------------------------------
(* The state machine: one call of the test helper extract(text), which      *)
(* constructs a Bible, extracts and renders each reference, and then the    *)
(* extraction of the joined output.                                         *)

VARIABLES req, text, books, bible, normalized, refs, result, error,
          previous, pc

(* the transcript handed to the subtitle handler, its raw text, the flag   *)
(* of extract_scriptures_from_srt and the records of                       *)
(* convert_srt_into_document                                               *)
VARIABLES transcript, srt, allow_duplicates, document

(* the caption track xml_caption_to_srt is called on *)
VARIABLE xml_captions

srtVars == <<transcript, srt, allow_duplicates, document, xml_captions>>

(* the process as its callers share it: where each caller stands in its    *)
(* call, the cache of get_stopwords, the number of Bible() constructions   *)
(* begun, the number of times stopwords.json was read, and what the        *)
(* finished calls returned                                                 *)
VARIABLES callers, cache, constructed, loads, outcomes

(* what a call on the text returns in a process of its own *)
VARIABLE alone

procVars == <<callers, cache, constructed, loads, outcomes, alone>>

(* the documents of the database and the last call of the API or of a     *)
(* handler, with what it raised and what it returned                       *)
VARIABLES db, call

dbVars == <<db, call>>

vars == <<req, text, books, bible, normalized, refs, result, error,
          previous, pc, srtVars, procVars, dbVars>>

NoTranscript == [caps |-> <<>>, fault |-> "none", at |-> 0, ending |-> <<>>]

(* no transcript is at hand *)
NoSrt ==
  /\ transcript = NoTranscript
  /\ srt = <<>>
  /\ allow_duplicates = FALSE
  /\ document = <<>>
  /\ xml_captions = <<>>

(* no database is at hand *)
NoDb ==
  /\ db = <<>>
  /\ call = <<>>

(* no caller is at work *)
NoProc ==
  /\ callers = <<>>
  /\ cache = <<>>
  /\ constructed = 0
  /\ loads = 0
  /\ outcomes = <<>>
  /\ alone = <<>>

(* super().__init__() and the compilation of the scripture regex over the   *)
(* updated table                                                            *)
Compiled(updated) ==
  [books |-> updated,
   book_re_string |-> book_re_string(updated),
   scripture_re |-> get_scripture_regex(book_re_string(updated),
                                        get_stopwords)]

(* Bible.__init__: the class-level table is updated in place, the parent    *)
(* joins the book regexes and the scripture regex is compiled               *)
BibleInit(bks) ==
  Compiled(_update_book_numeral_regex(DictUpdate(bks, alternate_book_names)))

(* the values of one call, for the Bible b and the outcome r of its extract *)
Returned(b, r) ==
  [books |-> b.books,
   bible |-> [book_re_string |-> b.book_re_string],
   normalized |-> r.normalized,
   refs |-> r.refs,
   error |-> r.error,
   result |-> [i \in 1..Len(r.refs) |->
                 reference_to_string(b.books, r.refs[i])]]

ExtractWith(b, t) == Returned(b, extract(b.books, b.scripture_re, t))

(* [bible.reference_to_string(ref...) for ref in bible.extract(text)] *)
Call(bks, t) == ExtractWith(BibleInit(bks), t)

Init ==
  /\ req \in Requests
  /\ text = Render(req)
  /\ books = KingJames1611
  /\ bible = [book_re_string |-> <<>>]
  /\ normalized = <<>>
  /\ refs = <<>>
  /\ result = <<>>
  /\ error = "none"
  /\ previous = <<>>
  /\ pc = "ready"
  /\ NoSrt
  /\ NoProc
  /\ NoDb

Extract ==
  /\ pc = "ready"
  /\ \E out \in {Call(books, text)} :
        /\ books' = out.books
        /\ bible' = out.bible
        /\ normalized' = out.normalized
        /\ refs' = out.refs
        /\ result' = out.result
        /\ error' = out.error
  /\ pc' = "done"
  /\ UNCHANGED <<req, text, previous, srtVars, procVars, dbVars>>

(* extract(" ".join(result)) *)
ExtractAgain ==
  /\ pc = "done"
  /\ error = "none"
  /\ result # <<>>
  /\ text' = Join(result, Sp)
  /\ \E out \in {Call(books, Join(result, Sp))} :
        /\ books' = out.books
        /\ bible' = out.bible
        /\ normalized' = out.normalized
        /\ refs' = out.refs
        /\ result' = out.result
        /\ error' = out.error
  /\ previous' = result
  /\ pc' = "again"
  /\ UNCHANGED <<req, srtVars, procVars, dbVars>>

Next == Extract \/ ExtractAgain

Spec == Init /\ [][Next]_vars

----------------------------------------------------------------------------
(* The subtitle handler: YoutubeVideoHandler.decompose_srt,                 *)
(* convert_srt_into_document and extract_scriptures_from_srt                *)
(* (src/python/windwords/handlers/youtube.py)                               *)

Newline == "\n"

Arrow == <<"-", "-", ">">>

(* lines[k - 1::4]: every fourth line from the k-th on *)
Slice(lines, k) ==
  [i \in 1..((Len(lines) - k + 4) \div 4) |-> lines[k + 4 * (i - 1)]]

RECURSIVE SplitOn(_, _)
RECURSIVE SplitAt(_, _, _)
(* s.split(sep) for a separator of several characters *)
SplitOn(s, sep) ==
  SplitAt(s, sep, FirstIn({i \in 1..Len(s) : LitAt(sep, s, i, FALSE)}))

(* the split of s whose first separator starts at i (0: there is none) *)
SplitAt(s, sep, i) ==
  IF i = 0 THEN <<s>>
  ELSE <<SubSeq(s, 1, i - 1)>>
       \o SplitOn(SubSeq(s, i + Len(sep), Len(s)), sep)

(* the positions of s that hold no whitespace *)
Inked(s) == {i \in 1..Len(s) : ~IsSpace(s[i])}

(* s.strip() *)
strip(s) ==
  IF Inked(s) = {} THEN <<>> ELSE SubSeq(s, MinIn(Inked(s)), MaxIn(Inked(s)))

(* does int(s) return a number: digits, whitespace around them allowed *)
IsInt(s) == strip(s) # <<>> /\ \A i \in 1..Len(strip(s)) : IsDigit(strip(s)[i])

(* int(s) *)
int(s) == ParseInt(strip(s))

Raised(e) ==
  [error |-> e, frames |-> <<>>, timecodes |-> <<>>, captions |-> <<>>]

(* the (start.strip(), end.strip()) comprehension: a timecode that does    *)
(* not split in two cannot be unpacked                                     *)
Unpacked(frames, times, captions) ==
  IF \E i \in 1..Len(times) : Len(times[i]) # 2 THEN Raised("ValueError")
  ELSE [error |-> "none",
        frames |-> frames,
        timecodes |-> [i \in 1..Len(times) |->
                         <<strip(times[i][1]), strip(times[i][2])>>],
        captions |-> captions]

(* the assertion on the separator lines skipped *)
Asserted_Off(frames, timecodes, captions, spaces) ==
  Unpacked(frames,
           [i \in 1..Len(timecodes) |-> SplitOn(timecodes[i], Arrow)],
           captions)

(* assert not any(spaces), and then the split of the timecodes *)
Asserted(frames, timecodes, captions, spaces) ==
  IF \E i \in 1..Len(spaces) : spaces[i] # <<>>
  THEN Raised("AssertionError")
  ELSE Unpacked(frames,
                [i \in 1..Len(timecodes) |-> SplitOn(timecodes[i], Arrow)],
                captions)

(* the four slices of the lines *)
Sliced(lines) ==
  Asserted(Slice(lines, 1), Slice(lines, 2), Slice(lines, 3),
           Slice(lines, 4))

(* YoutubeVideoHandler.decompose_srt *)
decompose_srt(s) == Sliced(Split(s, Newline))

(* the number of triples zip(frames, timecodes, captions) yields *)
ZipLen(d) == MinIn({Len(d.frames), Len(d.timecodes), Len(d.captions)})

(* a document that drops the last record *)
Records_DropLast(d, n) ==
  IF \E i \in 1..n : ~IsInt(d.frames[i])
  THEN [error |-> "ValueError", document |-> <<>>]
  ELSE [error |-> "none",
        document |-> [i \in 1..(n - 1) |->
                        [caption |-> d.captions[i],
                         frame |-> int(d.frames[i]),
                         start |-> d.timecodes[i][1],
                         end |-> d.timecodes[i][2]]]]

(* the loop of convert_srt_into_document over the first n triples *)
Records(d, n) ==
  IF \E i \in 1..n : ~IsInt(d.frames[i])
  THEN [error |-> "ValueError", document |-> <<>>]
  ELSE [error |-> "none",
        document |-> [i \in 1..n |->
                        [caption |-> d.captions[i],
                         frame |-> int(d.frames[i]),
                         start |-> d.timecodes[i][1],
                         end |-> d.timecodes[i][2]]]]

Converted(d) ==
  IF d.error # "none" THEN [error |-> d.error, document |-> <<>>]
  ELSE Records(d, ZipLen(d))

(* YoutubeVideoHandler.convert_srt_into_document *)
convert_srt_into_document(s) == Converted(decompose_srt(s))

(* the characters of the reference strings in code point order *)
CodePoints ==
  <<" ", "-">> \o Digits \o <<":">> \o UpperLetters \o LowerLetters

Ord(c) == CHOOSE i \in 1..Len(CodePoints) : CodePoints[i] = c

RECURSIVE StrLess(_, _)
(* a < b for two strings *)
StrLess(a, b) ==
  IF b = <<>> THEN FALSE
  ELSE IF a = <<>> THEN TRUE
  ELSE IF Head(a) = Head(b) THEN StrLess(Tail(a), Tail(b))
  ELSE Ord(Head(a)) < Ord(Head(b))

RECURSIVE Insert(_, _)
(* x put into the sorted xs, after the strings not greater than it *)
Insert(x, xs) ==
  IF xs = <<>> THEN <<x>>
  ELSE IF StrLess(x, Head(xs)) THEN <<x>> \o xs
  ELSE <<Head(xs)>> \o Insert(x, Tail(xs))

(* a sort that leaves the list as it is *)
sorted_none(xs) == xs

RECURSIVE sorted(_)
(* sorted(xs) *)
sorted(xs) ==
  IF xs = <<>> THEN <<>>
  ELSE Insert(xs[Len(xs)], sorted(SubSeq(xs, 1, Len(xs) - 1)))

(* list(set(xs)): the distinct members of xs, in any order *)
ListsOfSet(xs) ==
  {l \in [1..Cardinality(Range(xs)) -> Range(xs)] : Range(l) = Range(xs)}

(* the lists the duplicate handling can leave before the sort *)
Lists(xs, allow) == IF allow THEN {xs} ELSE ListsOfSet(xs)

(* the index lines joined in with the captions *)
Scriptures_WithFrames(bks, d) ==
  IF d.error # "none"
  THEN [books |-> bks, bible |-> [book_re_string |-> <<>>],
        normalized |-> <<>>, refs |-> <<>>, error |-> d.error,
        result |-> <<>>, text |-> <<>>]
  ELSE [text |-> Join([i \in 1..Len(d.captions) |->
                        d.frames[i] \o Sp \o d.captions[i]], Sp)]
       @@ Call(bks, Join([i \in 1..Len(d.captions) |->
                           d.frames[i] \o Sp \o d.captions[i]], Sp))

(* the outcome of extract_scriptures_from_srt from the decomposition d:    *)
(* the error of decompose_srt, or the joined captions through a new Bible  *)
Scriptures(bks, d) ==
  IF d.error # "none"
  THEN [books |-> bks, bible |-> [book_re_string |-> <<>>],
        normalized |-> <<>>, refs |-> <<>>, error |-> d.error,
        result |-> <<>>, text |-> <<>>]
  ELSE [text |-> Join(d.captions, Sp)] @@ Call(bks, Join(d.captions, Sp))

(* Transcripts.  A transcript is a sequence of blocks of an index line, a  *)
(* timecode line, a caption and a separator line; one block may carry a    *)
(* fault.                                                                   *)

MaxBlocks == 3

(* the captions, each with the string its reference is returned as *)
Captions ==
  << [text |-> <<"m","a","r","k"," ","8",":","3","4">>,
      canon |-> <<"M","a","r","k"," ","8",":","3","4">>],
     [text |-> <<"e","x","o","d","u","s"," ","2",":","3","-","5">>,
      canon |-> <<"E","x","o","d","u","s"," ","2",":","3","-","5">>],
     [text |-> <<"j","o","h","n"," ","1","2",":","1">>,
      canon |-> <<"J","o","h","n"," ","1","2",":","1">>],
     [text |-> <<"t","u","r","n"," ","t","o"," ","m","a","r","k">>,
      canon |-> <<>>],
     [text |-> <<"8",":","3","4"," ","n","o","w">>,
      canon |-> <<>>] >>

(* the captions that hold a reference of their own; the others hold the    *)
(* two halves of one                                                       *)
Whole == {i \in 1..Len(Captions) : Captions[i].canon # <<>>}

(* the index the first block carries, less one *)
FrameBase == 8

(* the time of the i-th cut *)
Time(i) == <<"0","0",":","0","0",":","0">> \o Str(i) \o <<",","0","0","0">>

(* the timecode line of block i: the arrow spaced, tight, or padded *)
TimeLine(i) ==
  CASE i % 3 = 1 -> Time(i) \o <<" ">> \o Arrow \o <<" ">> \o Time(i + 1)
    [] i % 3 = 2 -> Time(i) \o Arrow \o Time(i + 1)
    [] OTHER -> <<" ", " ">> \o Time(i) \o <<"\t">> \o Arrow
                \o <<" ", " ">> \o Time(i + 1) \o <<" ">>

W_amen == <<"a","m","e","n">>

(* "space", "text", "both": the separator line of block at is not empty    *)
(* ("both": and its timecode has no arrow); "arrow": the timecode has no   *)
(* arrow; "frame": the index line is no number                             *)
Faults == {"space", "text", "both", "arrow", "frame"}

SeparatorFaults == {"space", "text", "both"}

Endings == {<<>>, <<"\n">>, <<"\n", "\n">>}

Transcripts ==
  {[caps |-> c, fault |-> "none", at |-> 0, ending |-> e] :
     c \in SeqsUpTo(Whole, MaxBlocks), e \in Endings}
  \cup
  {t \in [caps : SeqsUpTo(Whole, MaxBlocks) \ {<<>>},
          fault : Faults, at : 1..MaxBlocks, ending : Endings] :
     t.at \in {1, Len(t.caps)}}

FrameLine(t, i) ==
  IF t.fault = "frame" /\ t.at = i THEN W_amen ELSE Str(FrameBase + i)

TimecodeLine(t, i) ==
  IF t.fault \in {"both", "arrow"} /\ t.at = i
  THEN Time(i) \o <<" ">> \o Time(i + 1)
  ELSE TimeLine(i)

SeparatorLine(t, i) ==
  IF t.at # i THEN <<>>
  ELSE CASE t.fault = "space" -> <<" ">>
         [] t.fault \in {"text", "both"} -> W_amen
         [] OTHER -> <<>>

(* the lines of block i; the last block has a separator line only when it  *)
(* is not empty                                                            *)
BlockLines(t, i) ==
  <<FrameLine(t, i), TimecodeLine(t, i), Captions[t.caps[i]].text>>
  \o (IF i < Len(t.caps) \/ SeparatorLine(t, i) # <<>>
      THEN <<SeparatorLine(t, i)>>
      ELSE <<>>)

(* the raw text of the transcript *)
RenderSrt(t) ==
  Join(Flatten([i \in 1..Len(t.caps) |-> BlockLines(t, i)]), <<Newline>>)
  \o t.ending

(* The subtitle handler as a state machine: a transcript is converted into *)
(* its document and then searched for scriptures.                          *)

SrtInit ==
  /\ req = NoReq
  /\ text = <<>>
  /\ books = KingJames1611
  /\ bible = [book_re_string |-> <<>>]
  /\ normalized = <<>>
  /\ refs = <<>>
  /\ result = <<>>
  /\ error = "none"
  /\ previous = <<>>
  /\ pc = "ready"
  /\ transcript \in Transcripts
  /\ srt = RenderSrt(transcript)
  /\ allow_duplicates \in (IF transcript.fault = "none" THEN BOOLEAN
                           ELSE {FALSE})
  /\ document = <<>>
  /\ xml_captions = <<>>
  /\ NoProc
  /\ NoDb

ConvertSrtIntoDocument ==
  /\ pc = "ready"
  /\ \E out \in {convert_srt_into_document(srt)} :
        /\ document' = out.document
        /\ error' = out.error
  /\ pc' = "converted"
  /\ UNCHANGED <<req, text, books, bible, normalized, refs, result,
                 previous, transcript, srt, allow_duplicates, xml_captions,
                 procVars, dbVars>>

ExtractScripturesFromSrt ==
  /\ pc = "converted"
  /\ \E out \in {Scriptures(books, decompose_srt(srt))} :
        /\ text' = out.text
        /\ books' = out.books
        /\ bible' = out.bible
        /\ normalized' = out.normalized
        /\ refs' = out.refs
        /\ error' = out.error
        /\ previous' = out.result
        /\ \E l \in Lists(out.result, allow_duplicates) :
              result' = sorted(l)
  /\ pc' = "extracted"
  /\ UNCHANGED <<req, srtVars, procVars, dbVars>>

SrtNext == ConvertSrtIntoDocument \/ ExtractScripturesFromSrt

SrtSpec == SrtInit /\ [][SrtNext]_vars

(* The subtitle handler on transcripts that break a reference over two     *)
(* captions.                                                               *)

MaxSplit == 2

SplitTranscripts ==
  {[caps |-> c, fault |-> "none", at |-> 0, ending |-> e] :
     c \in {x \in SeqsUpTo(1..Len(Captions), MaxSplit) :
              Range(x) \ Whole # {}},
     e \in Endings}

(* the captions of the transcript written on one line *)
OneLine(t) == Join([i \in 1..Len(t.caps) |-> Captions[t.caps[i]].text], Sp)

SplitInit ==
  /\ req = NoReq
  /\ text = <<>>
  /\ books = KingJames1611
  /\ bible = [book_re_string |-> <<>>]
  /\ normalized = <<>>
  /\ refs = <<>>
  /\ result = <<>>
  /\ error = "none"
  /\ previous = <<>>
  /\ pc = "ready"
  /\ transcript \in SplitTranscripts
  /\ srt = RenderSrt(transcript)
  /\ allow_duplicates \in BOOLEAN
  /\ document = <<>>
  /\ xml_captions = <<>>
  /\ NoProc
  /\ NoDb

SplitSpec == SplitInit /\ [][SrtNext]_vars

(* Captions from XML.  A caption track is the sequence of its body/p       *)
(* elements, each with the attributes t and d (None: it has none) and its  *)
(* text as the XML parser returns it.                                       *)

MaxElements == 2

(* the character references html.unescape resolves, of those the texts     *)
(* hold                                                                     *)
CharRefs ==
  << [ref |-> <<"&","#","1","0",";">>, char |-> <<"\n">>],
     [ref |-> <<"&","a","m","p",";">>, char |-> <<"&">>] >>

(* the reference that starts at position i of s (0: none does) *)
RefAt(s, i) ==
  FirstIn({k \in 1..Len(CharRefs) : LitAt(CharRefs[k].ref, s, i, FALSE)})

RECURSIVE unescape(_)
(* html.unescape(s): every reference gives way to its character, left to   *)
(* right, and what it leaves is not read again                              *)
unescape(s) ==
  IF s = <<>> THEN <<>>
  ELSE IF RefAt(s, 1) # 0
  THEN CharRefs[RefAt(s, 1)].char
       \o unescape(SubSeq(s, Len(CharRefs[RefAt(s, 1)].ref) + 1, Len(s)))
  ELSE <<Head(s)>> \o unescape(Tail(s))

(* two digits *)
Pad2(n) == IF n < 10 THEN <<"0">> \o Str(n) ELSE Str(n)

(* Caption.float_to_srt_time_format for a whole number of seconds *)
float_to_srt_time_format(d) ==
  Pad2(d \div 3600) \o <<":">> \o Pad2((d % 3600) \div 60) \o <<":">>
  \o Pad2(d % 60) \o <<",", "0", "0", "0">>

(* unescape(text.replace("\n", " ").replace("  ", " ")) *)
CaptionOf(t) ==
  unescape(Replace(Replace(t, <<"\n">>, <<" ">>), <<" ", " ">>, <<" ">>))

(* float(child.attrib["d"]), or 0.0 on the KeyError *)
Duration(el) == IF el.d = None THEN 0 ELSE el.d

(* the segment of the i-th element *)
Segment(el, i) ==
  Str(i) \o <<"\n">>
  \o float_to_srt_time_format(el.t) \o <<" ">> \o Arrow \o <<" ">>
  \o float_to_srt_time_format(el.t + Duration(el)) \o <<"\n">>
  \o CaptionOf(strip(el.text)) \o <<"\n">>

(* the elements that are not skipped: their text is not blank *)
Voiced(track) == {i \in 1..Len(track) : strip(track[i].text) # <<>>}

RECURSIVE Segments(_, _)
(* the segments of the elements from the i-th on *)
Segments(track, i) ==
  IF i > Len(track) THEN <<>>
  ELSE IF i \in Voiced(track)
  THEN <<Segment(track[i], i)>> \o Segments(track, i + 1)
  ELSE Segments(track, i + 1)

(* youtube.xml_caption_to_srt: child.attrib["t"] of an element that has no *)
(* t is a KeyError                                                          *)
xml_caption_to_srt(track) ==
  IF \E i \in Voiced(track) : track[i].t = None
  THEN [error |-> "KeyError", srt |-> <<>>]
  ELSE [error |-> "none",
        srt |-> strip(Join(Segments(track, 1), <<"\n">>))]

(* the texts of the elements: plain, with white space inside and around,   *)
(* blank, with a reference to a line feed and with one to an ampersand     *)
XmlTexts ==
  { W_amen,
    <<" ", "s", "o", " ", " ", "b", "e", "\n", "i", "t", " ">>,
    <<" ", "\n">>,
    <<"a", "m", "e", "n", "&", "#", "1", "0", ";", "a", "m", "e", "n">>,
    <<"y", "o", "u", " ", "&", "a", "m", "p", ";", " ", "m", "e">> }

(* the elements: one that starts at 0 and lasts, one without d, and one    *)
(* without t                                                                *)
Elements ==
  {[t |-> 0, d |-> 2, text |-> x] : x \in XmlTexts}
  \cup {[t |-> 59, d |-> None, text |-> x] : x \in XmlTexts}
  \cup {[t |-> None, d |-> 2, text |-> W_amen]}

XmlInit ==
  /\ req = NoReq
  /\ text = <<>>
  /\ books = KingJames1611
  /\ bible = [book_re_string |-> <<>>]
  /\ normalized = <<>>
  /\ refs = <<>>
  /\ result = <<>>
  /\ error = "none"
  /\ previous = <<>>
  /\ pc = "xml"
  /\ transcript = NoTranscript
  /\ srt = <<>>
  /\ allow_duplicates = FALSE
  /\ document = <<>>
  /\ xml_captions \in SeqsUpTo(Elements, MaxElements)
  /\ NoProc
  /\ NoDb

(* caption.xml_caption_to_srt(xml_captions) *)
XmlCaptionToSrt ==
  /\ pc = "xml"
  /\ \E out \in {xml_caption_to_srt(xml_captions)} :
        /\ srt' = out.srt
        /\ error' = out.error
        /\ pc' = IF out.error = "none" THEN "ready" ELSE "raised"
  /\ UNCHANGED <<req, text, books, bible, normalized, refs, result,
                 previous, transcript, allow_duplicates, document,
                 xml_captions, procVars, dbVars>>

XmlNext == XmlCaptionToSrt \/ ConvertSrtIntoDocument

XmlSpec == XmlInit /\ [][XmlNext]_vars

----------------------------------------------------------------------------
(* The process.  Callers share the class-level table of books and the      *)
(* cache of get_stopwords.  Each call runs the body of                     *)
(* extract_scriptures_from_srt on the joined captions: Bible(), whose      *)
(* __init__ updates the shared table, joins the book regexes, fetches the  *)
(* stopwords through the cache and compiles the scripture regex; then the  *)
(* extraction, the set and the sort.  A caller is interleaved with the     *)
(* others between these steps.                                             *)

MaxCallers == 2

MaxCalls == 3

Callers == 1..MaxCallers

(* a caller between calls *)
Idle == [pc |-> "idle", book_re_string |-> <<>>, sw |-> <<>>]

(* the texts of the process: two references out of order, the same        *)
(* reference twice, a book named by a numeral word, an alias of Song of    *)
(* Solomon, and a text on which the call raises                            *)
ProcessRequests ==
  {r \in TwoRequests : r.w1 = <<",", " ">> /\ r.n \in {<<1, 2>>, <<2, 2>>}}
  \cup {r \in NumeralRequests : r.b = 2 /\ r.n = <<4, 1, 16>>}
  \cup {r \in AliasRequests : r.n = <<Len(SongSpellings), 8, 2>>}
  \cup {r \in ChapterWordRequests : r.b = 3 /\ r.n = <<1, 5>>}

ProcInit ==
  /\ req \in ProcessRequests
  /\ text = Render(req)
  /\ books = KingJames1611
  /\ bible = [book_re_string |-> <<>>]
  /\ normalized = <<>>
  /\ refs = <<>>
  /\ result = <<>>
  /\ error = "none"
  /\ previous = <<>>
  /\ pc = "ready"
  /\ transcript = NoTranscript
  /\ srt = <<>>
  /\ allow_duplicates \in (IF req.fam = "two" /\ req.n[1] = req.n[2]
                           THEN BOOLEAN ELSE {FALSE})
  /\ document = <<>>
  /\ xml_captions = <<>>
  /\ callers = [t \in Callers |-> Idle]
  /\ cache = <<>>
  /\ constructed = 0
  /\ loads = 0
  /\ outcomes = <<>>
  /\ alone = <<>>
  /\ NoDb

(* Bible.__init__: self.books.update(self.alternate_book_names()) *)
BooksUpdate(t) ==
  /\ callers[t].pc = "idle"
  /\ constructed < MaxCalls
  /\ constructed' = constructed + 1
  /\ books' = DictUpdate(books, alternate_book_names)
  /\ callers' = [callers EXCEPT ![t].pc = "numerals"]
  /\ UNCHANGED <<alone, req, text, bible, normalized, refs, result, error,
                 previous, pc, srtVars, dbVars, cache, loads, outcomes>>

(* Bible.__init__: self._update_book_numeral_regex() *)
UpdateBookNumeralRegex(t) ==
  /\ callers[t].pc = "numerals"
  /\ books' = _update_book_numeral_regex(books)
  /\ callers' = [callers EXCEPT ![t].pc = "parent"]
  /\ UNCHANGED <<alone, req, text, bible, normalized, refs, result, error,
                 previous, pc, srtVars, dbVars, cache, constructed, loads,
                 outcomes>>

(* Bible.__init__: super().__init__() joins the book regexes of the table *)
(* as it stands                                                            *)
TextInit(t) ==
  /\ callers[t].pc = "parent"
  /\ callers' = [callers EXCEPT ![t].pc = "lookup",
                                ![t].book_re_string = book_re_string(books)]
  /\ UNCHANGED <<alone, req, text, books, bible, normalized, refs, result, error,
                 previous, pc, srtVars, dbVars, cache, constructed, loads,
                 outcomes>>

(* get_stopwords() in get_scripture_regex: the wrapper of cached() looks   *)
(* the key up; a hit returns the cached list, a miss goes on to the        *)
(* function                                                                *)
CachedLookup(t) ==
  /\ callers[t].pc = "lookup"
  /\ callers' = IF cache # <<>>
                THEN [callers EXCEPT ![t].pc = "compile",
                                     ![t].sw = cache[1]]
                ELSE [callers EXCEPT ![t].pc = "miss"]
  /\ UNCHANGED <<alone, req, text, books, bible, normalized, refs, result, error,
                 previous, pc, srtVars, dbVars, cache, constructed, loads,
                 outcomes>>

(* after a miss: the body of get_stopwords opens and parses               *)
(* stopwords.json, and the wrapper of cached() stores what it returned;    *)
(* there is no lock between the lookup and here                            *)
LoadStopwords(t) ==
  /\ callers[t].pc = "miss"
  /\ loads' = loads + 1
  /\ cache' = <<get_stopwords>>
  /\ callers' = [callers EXCEPT ![t].pc = "compile", ![t].sw = get_stopwords]
  /\ UNCHANGED <<alone, req, text, books, bible, normalized, refs, result, error,
                 previous, pc, srtVars, dbVars, constructed, outcomes>>

(* the Bible of a caller: the shared table, the caller's joined book       *)
(* regexes and the scripture regex compiled from them and its stopwords    *)
BibleOf(bks, c) ==
  [books |-> bks,
   book_re_string |-> c.book_re_string,
   scripture_re |-> get_scripture_regex(c.book_re_string, c.sw)]

(* the scripture regex is compiled; then the references of the text are    *)
(* extracted and rendered, made a set unless duplicates are allowed, and   *)
(* sorted                                                                  *)
CompileAndExtract(t) ==
  /\ callers[t].pc = "compile"
  /\ \E out \in {ExtractWith(BibleOf(books, callers[t]), text)} :
        /\ bible' = out.bible
        /\ normalized' = out.normalized
        /\ refs' = out.refs
        /\ error' = out.error
        /\ previous' = out.result
        /\ \E l \in Lists(out.result, allow_duplicates) :
              /\ result' = sorted(l)
              /\ outcomes' = Append(outcomes, [result |-> sorted(l),
                                               error |-> out.error])
  /\ callers' = [callers EXCEPT ![t] = Idle]
  /\ UNCHANGED <<alone, req, text, books, pc, srtVars, dbVars, cache, constructed, loads>>

ProcNext ==
  \E t \in Callers :
     \/ BooksUpdate(t)
     \/ UpdateBookNumeralRegex(t)
     \/ TextInit(t)
     \/ CachedLookup(t)
     \/ LoadStopwords(t)
     \/ CompileAndExtract(t)

ProcSpec == ProcInit /\ [][ProcNext]_vars

----------------------------------------------------------------------------
(* Calls in parallel.  As in the process, but the loop of                  *)
(* _update_book_numeral_regex is taken entry by entry: items() hands out  *)
(* the next entry, and books.update writes the entry with its regex        *)
(* replaced; another caller may run between the two.  Each construction    *)
(* is followed by one extraction; there are as many calls as callers.      *)

(* what extract_scriptures_from_srt returns for the text in a process in   *)
(* which nothing else has run                                              *)
Alone(t, allow) ==
  LET out == Call(KingJames1611, t)
  IN [result |-> sorted(CHOOSE l \in Lists(out.result, allow) : TRUE),
      error |-> out.error]

(* the text of the calls in parallel: a book named by a numeral word,     *)
(* which is found only through a regex the loop has rewritten              *)
ParallelRequests ==
  {r \in NumeralRequests : r.b = 2 /\ r.n = <<4, 1, 16>>}

ParInit ==
  /\ req \in ParallelRequests
  /\ text = Render(req)
  /\ books = KingJames1611
  /\ bible = [book_re_string |-> <<>>]
  /\ normalized = <<>>
  /\ refs = <<>>
  /\ result = <<>>
  /\ error = "none"
  /\ previous = <<>>
  /\ pc = "ready"
  /\ transcript = NoTranscript
  /\ srt = <<>>
  /\ allow_duplicates = FALSE
  /\ document = <<>>
  /\ xml_captions = <<>>
  /\ callers = [t \in Callers |-> Idle]
  /\ cache = <<>>
  /\ constructed = 0
  /\ loads = 0
  /\ outcomes = <<>>
  /\ alone = Alone(Render(req), FALSE)
  /\ NoDb

(* Bible.__init__: self.books.update(self.alternate_book_names()); then   *)
(* the loop of _update_book_numeral_regex is entered                       *)
ParBooksUpdate(t) ==
  /\ callers[t].pc = "idle"
  /\ constructed < MaxCallers
  /\ constructed' = constructed + 1
  /\ books' = DictUpdate(books, alternate_book_names)
  /\ callers' = [callers EXCEPT ![t] =
                   [pc |-> "items", book_re_string |-> <<>>, sw |-> <<>>,
                    i |-> 1,
                    used |-> Len(DictUpdate(books, alternate_book_names)),
                    held |-> <<>>]]
  /\ UNCHANGED <<alone, req, text, bible, normalized, refs, result, error,
                 previous, pc, srtVars, dbVars, cache, loads, outcomes>>

(* for key, value in self.books.items(): the next entry, RuntimeError      *)
(* when the table has changed its size since the loop began, or the end    *)
(* of the loop                                                             *)
ItemsNext(t) ==
  /\ callers[t].pc = "items"
  /\ IF Len(books) # callers[t].used
     THEN /\ callers' = [callers EXCEPT ![t] = Idle]
          /\ outcomes' = Append(outcomes, [result |-> <<>>,
                                           error |-> "RuntimeError"])
     ELSE /\ callers' =
               IF callers[t].i > Len(books)
               THEN [callers EXCEPT ![t].pc = "parent"]
               ELSE [callers EXCEPT ![t].pc = "update",
                                    ![t].held = <<books[callers[t].i]>>]
          /\ UNCHANGED outcomes
  /\ UNCHANGED <<alone, req, text, books, bible, normalized, refs, result,
                 error, previous, pc, srtVars, dbVars, cache, constructed, loads>>

(* regex = regex.replace(source, target) for the three pairs, then         *)
(* self.books.update({key: (name, abbreviation, regex, verse_count)})      *)
EntryUpdate(t) ==
  /\ callers[t].pc = "update"
  /\ books' = DictUpdate(books,
                <<[callers[t].held[1] EXCEPT !.re = ReplaceNumerals(@)]>>)
  /\ callers' = [callers EXCEPT ![t].pc = "items",
                                ![t].i = callers[t].i + 1,
                                ![t].held = <<>>]
  /\ UNCHANGED <<alone, req, text, bible, normalized, refs, result, error,
                 previous, pc, srtVars, dbVars, cache, constructed, loads,
                 outcomes>>

ParNext ==
  \E t \in Callers :
     \/ ParBooksUpdate(t)
     \/ ItemsNext(t)
     \/ EntryUpdate(t)
     \/ TextInit(t)
     \/ CachedLookup(t)
     \/ LoadStopwords(t)
     \/ CompileAndExtract(t)

ParSpec == ParInit /\ [][ParNext]_vars

----------------------------------------------------------------------------
(* The database and the API.  A document is [id, key, link]: its _id, the  *)
(* primary data it is looked up by, and its link fields, each with the     *)
(* ids get_linked_ids reads from it.  A call returns [error, db, value].   *)

(* the names the module windwords.constants defines *)
constants ==
  {"WINDWORDS_PYTHON", "WINDWORDS_ROOT", "WINDWORDS_RESOURCES",
   "APPLICATION_NAME", "DATABASE_NAME", "Collection", "Denomination",
   "MediaFormat"}

(* the names bound in the module windwords.youtube *)
youtube_names ==
  {"Channel", "YouTube", "get_videos_from_channel",
   "get_videos_from_channel_within_timeframe",
   "get_recent_videos_from_channel", "download_captions", "ElementTree",
   "unescape", "Caption", "xml_caption_to_srt"}

(* constants.<name>: a module raises AttributeError for a name it lacks *)
Attr(name) == IF name \in constants THEN "none" ELSE "AttributeError"

(* the methods DocumentHandler declares abstract *)
AbstractMethods == {"primary_data", "from_object_id", "accepts", "collection"}

(* the methods each handler class defines *)
Defines(cls) ==
  CASE cls = "YoutubeChannelHandler" ->
         {"primary_data", "accepts", "collection", "get_link_schema",
          "from_object_id", "from_url"}
    [] cls = "YoutubeVideoHandler" ->
         {"primary_data", "secondary_data", "accepts", "collection",
          "get_link_schema", "from_object_id", "from_url", "decompose_srt",
          "convert_srt_into_document", "extract_scriptures_from_srt"}
    [] OTHER ->
         {"primary_data", "secondary_data", "resolve_address",
          "resolve_denomination", "accepts", "collection",
          "resolve_denomination_from_text",
          "resolve_denomination_from_website", "from_google_place_id"}

DbFail(d, e) == [error |-> e, db |-> d, value |-> <<>>]

DbOk(d, v) == [error |-> "none", db |-> d, value |-> v]

(* cls(obj): a class that leaves an abstract method undefined cannot be    *)
(* instantiated                                                            *)
New(d, cls, key) ==
  IF AbstractMethods \subseteq Defines(cls)
  THEN DbOk(d, [cls |-> cls, key |-> key])
  ELSE DbFail(d, "TypeError")

(* cls.collection() *)
collection(cls) ==
  CASE cls = "YoutubeChannelHandler" -> "channels"
    [] cls = "YoutubeVideoHandler" -> "sermons"
    [] OTHER -> "churches"

(* cls.get_link_schema(): the entries [other, field, type] *)
get_link_schema(cls) ==
  CASE cls = "YoutubeChannelHandler" ->
         IF Attr("LinkType") # "none"
         THEN [error |-> Attr("LinkType"), value |-> {}]
         ELSE [error |-> "none",
               value |-> {[other |-> "ChurchHandler", field |-> "church",
                           type |-> "TO_ONE"],
                          [other |-> "YoutubeVideoHandler",
                           field |-> "sermons", type |-> "TO_MANY"]}]
    [] cls = "YoutubeVideoHandler" ->
         IF Attr("LinkType") # "none"
         THEN [error |-> Attr("LinkType"), value |-> {}]
         ELSE [error |-> "none",
               value |-> {[other |-> "ChurchHandler", field |-> "church",
                           type |-> "TO_ONE"],
                          [other |-> "YoutubeChannelHandler",
                           field |-> "channel", type |-> "TO_ONE"]}]
    [] OTHER -> [error |-> "none", value |-> {}]

(* mongo.get_collection: the database is named by constants.Database *)
get_collection(name) == Attr("Database")

(* the documents of the collection that match the primary data *)
Matching(d, name, key) == SelectSeq(d[name], LAMBDA x : x.key = key)

(* mongo.find_document: the first match, or none *)
find_document(d, name, key) ==
  IF get_collection(name) # "none"
  THEN [error |-> get_collection(name), value |-> <<>>]
  ELSE [error |-> "none",
        value |-> IF Matching(d, name, key) = <<>> THEN <<>>
                  ELSE <<Head(Matching(d, name, key))>>]

(* mongo.find_id *)
find_id(d, name, key) ==
  [error |-> find_document(d, name, key).error,
   value |-> [i \in 1..Len(find_document(d, name, key).value) |->
                find_document(d, name, key).value[i].id]]

(* the ids of every document *)
AllIds(d) ==
  UNION {{d[name][i].id : i \in 1..Len(d[name])} :
           name \in {"channels", "churches", "sermons"}}

(* the _id the database gives the next document *)
FreshId(d) == 1 + MaxIn(AllIds(d) \cup {0})

(* mongo.insert_documents with one document *)
insert_documents(d, name, key) ==
  IF get_collection(name) # "none" THEN DbFail(d, get_collection(name))
  ELSE [error |-> "none",
        db |-> [d EXCEPT ![name] =
                  Append(@, [id |-> FreshId(d), key |-> key, link |-> {}])],
        value |-> <<FreshId(d)>>]

(* the link fields with the field set to the one id *)
SetField(links, field, id) ==
  {l \in links : l.field # field} \cup {[field |-> field, ids |-> <<id>>]}

(* mongo.update_document: the modification is applied with $set *)
update_document(d, name, id, field, target) ==
  IF get_collection(name) # "none" THEN DbFail(d, get_collection(name))
  ELSE [error |-> "none",
        db |-> [d EXCEPT ![name] =
                  [i \in 1..Len(@) |->
                     IF @[i].id = id
                     THEN [@[i] EXCEPT !.link = SetField(@, field, target)]
                     ELSE @[i]]],
        value |-> <<>>]

(* the parameters of mongo.update_document_by_id *)
update_document_by_id_parameters == {"collection", "objectID", "modification"}

(* mongo.update_document_by_id called with the keywords kw: a keyword that *)
(* is no parameter is a TypeError                                          *)
update_document_by_id(d, name, id, field, target, kw) ==
  IF ~(kw \subseteq update_document_by_id_parameters)
  THEN DbFail(d, "TypeError")
  ELSE update_document(d, name, id, field, target)

(* handler.find() *)
find(d, h) ==
  [db |-> d] @@ find_document(d, collection(h.cls), h.key)

(* handler.database_object_id() *)
database_object_id(d, h) ==
  [db |-> d] @@ find_id(d, collection(h.cls), h.key)

(* handler.exists_in_database() *)
exists_in_database(d, h) ==
  [error |-> find(d, h).error, db |-> d, value |-> find(d, h).value # <<>>]

(* r, and then f of what it returned, unless it raised *)
Then(r, f(_)) == IF r.error # "none" THEN DbFail(r.db, r.error) ELSE f(r)

(* handler.insert() *)
insert(d, h) ==
  Then(exists_in_database(d, h), LAMBDA e :
    IF e.value THEN DbFail(d, "AssertionError")
    ELSE insert_documents(d, collection(h.cls), h.key))

(* the ids under the field of the link fields *)
FieldIds(links, field) ==
  IF {l \in links : l.field = field} = {} THEN <<>>
  ELSE (CHOOSE l \in links : l.field = field).ids

(* handler.get_linked_ids(field): None has no get *)
get_linked_ids(d, h, field) ==
  Then(find(d, h), LAMBDA f :
    IF f.value = <<>> THEN DbFail(d, "AttributeError")
    ELSE DbOk(d, FieldIds(f.value[1].link, field)))

(* the entries of the schema for a handler of the class other *)
SchemaFor(cls, other) ==
  {s \in get_link_schema(cls).value : s.other = other}

(* handler.is_linked(other) *)
is_linked(d, a, b) ==
  IF get_link_schema(a.cls).error # "none"
  THEN DbFail(d, get_link_schema(a.cls).error)
  ELSE IF SchemaFor(a.cls, b.cls) = {} THEN DbOk(d, FALSE)
  ELSE Then(find(d, a), LAMBDA f :
    IF f.value = <<>> THEN DbOk(d, FALSE)
    ELSE Then(database_object_id(d, b), LAMBDA o :
      Then(get_linked_ids(d, a,
             (CHOOSE s \in SchemaFor(a.cls, b.cls) : TRUE).field),
           LAMBDA links :
             DbOk(d, o.value # <<>> /\ o.value[1] \in Range(links.value)))))

(* the end of link: the operator is chosen by constants.LinkType, the ids  *)
(* are looked up and mongo.update_document_by_id is called with            *)
(* operator=operator                                                       *)
Linked(d, a, b, schema) ==
  IF Attr("LinkType") # "none" THEN DbFail(d, Attr("LinkType"))
  ELSE Then(database_object_id(d, a), LAMBDA x :
         Then(database_object_id(d, b), LAMBDA y :
           update_document_by_id(d, collection(a.cls), x.value[1],
                                 schema.field, y.value[1], {"operator"})))

(* handler.link(other) *)
link(d, a, b) ==
  Then(exists_in_database(d, a), LAMBDA p :
    IF ~p.value THEN DbFail(d, "AssertionError")
    ELSE Then(exists_in_database(d, b), LAMBDA q :
      IF ~q.value THEN DbFail(d, "AssertionError")
      ELSE Then(find(d, a), LAMBDA f :
        IF get_link_schema(a.cls).error # "none"
        THEN DbFail(d, get_link_schema(a.cls).error)
        ELSE IF SchemaFor(a.cls, b.cls) = {} THEN DbFail(d, "ValueError")
        ELSE Linked(d, a, b, CHOOSE s \in SchemaFor(a.cls, b.cls) : TRUE))))

(* What lies outside the program: the channels and their videos in channel *)
(* order, each with its publish_date and whether is_video_sermon accepts   *)
(* it, and the places of Google.                                           *)

Urls == {"u1", "u2"}

Video(v, u, date, sermon) ==
  [url |-> v, channel_url |-> u, publish_date |-> date, sermon |-> sermon]

ChannelVideos(u) ==
  IF u = "u1"
  THEN <<Video("v1", "u1", 9, TRUE), Video("v2", "u1", 7, FALSE),
         Video("v3", "u1", 4, TRUE)>>
  ELSE <<Video("v4", "u2", 8, TRUE)>>

AllVideos == UNION {Range(ChannelVideos(u)) : u \in Urls}

VideoUrls == {v.url : v \in AllVideos}

(* YouTube(url) *)
YouTube(url) == CHOOSE v \in AllVideos : v.url = url

Gpids == {"g1", "g2", "g3"}

(* result.get("types") of google.get_place(gpid): g3 resolves to no place *)
PlaceTypes(gpid) ==
  CASE gpid = "g1" -> {"church", "point_of_interest"}
    [] gpid = "g2" -> {"cafe"}
    [] OTHER -> {}

(* YoutubeChannelHandler.from_url, YoutubeVideoHandler.from_url *)
from_url(d, cls, url) == New(d, cls, url)

(* ChurchHandler.from_google_place_id *)
from_google_place_id(d, gpid) ==
  IF PlaceTypes(gpid) = {} THEN DbFail(d, "ValueError")
  ELSE IF PlaceTypes(gpid) \cap {"church", "place_of_worship"} = {}
  THEN DbFail(d, "ValueError")
  ELSE New(d, "ChurchHandler", gpid)

(* the handler, inserted unless its document exists *)
Inserted(d, h) ==
  Then(exists_in_database(d, h), LAMBDA e :
    IF e.value THEN DbOk(d, h)
    ELSE Then(insert(d, h), LAMBDA i : DbOk(i.db, h)))

(* api.insert_channel *)
insert_channel(d, url) ==
  Then(from_url(d, "YoutubeChannelHandler", url), LAMBDA h :
    Inserted(d, h.value))

(* api.insert_church *)
insert_church(d, gpid) ==
  Then(from_google_place_id(d, gpid), LAMBDA h : Inserted(d, h.value))

(* if not a.is_linked(b): a.link(b) *)
LinkUnlessLinked(d, a, b) ==
  Then(is_linked(d, a, b), LAMBDA r :
    IF r.value THEN DbOk(d, <<>>) ELSE link(d, a, b))

(* api.insert_channel_and_church *)
insert_channel_and_church(d, url, gpid) ==
  Then(insert_channel(d, url), LAMBDA c :
    Then(insert_church(c.db, gpid), LAMBDA h :
      Then(LinkUnlessLinked(h.db, c.value, h.value), LAMBDA l :
        Then(LinkUnlessLinked(l.db, h.value, c.value), LAMBDA m :
          DbOk(m.db, <<>>)))))

(* the end of insert_video_sermon, after the links of sermon and channel:  *)
(* ChurchHandler.from_object_id is the abstract method of the base class,  *)
(* which returns None, and None has no exists_in_database                  *)
ChurchLinked(d, sermon, channel) ==
  Then(get_linked_ids(d, channel, "church"), LAMBDA ids :
    IF ids.value = <<>> THEN DbOk(d, sermon)
    ELSE DbFail(d, "AttributeError"))

(* insert_video_sermon from the insertion of the sermon on *)
SermonInserted(d, sermon, channel) ==
  Then(exists_in_database(d, sermon), LAMBDA x :
    Then(IF x.value THEN DbOk(d, <<>>) ELSE insert(d, sermon), LAMBDA i :
      Then(database_object_id(i.db, sermon), LAMBDA sid :
        Then(database_object_id(i.db, channel), LAMBDA cid :
          Then(LinkUnlessLinked(i.db, sermon, channel), LAMBDA l :
            Then(LinkUnlessLinked(l.db, channel, sermon), LAMBDA m :
              ChurchLinked(m.db, sermon, channel)))))))

(* api.insert_video_sermon *)
insert_video_sermon(d, url) ==
  Then(from_url(d, "YoutubeVideoHandler", url), LAMBDA s :
    Then(from_url(d, "YoutubeChannelHandler", YouTube(url).channel_url),
         LAMBDA c :
      Then(exists_in_database(d, c.value), LAMBDA e :
        IF ~e.value THEN DbFail(d, "AssertionError")
        ELSE SermonInserted(d, s.value, c.value))))

(* youtube.get_videos_from_channel *)
get_videos_from_channel(url) == ChannelVideos(url)

(* youtube.get_videos_from_channel_within_timeframe *)
get_videos_from_channel_within_timeframe(url, start_date, end_date) ==
  SelectSeq(get_videos_from_channel(url),
            LAMBDA v : v.publish_date >= start_date
                       /\ v.publish_date <= end_date)

(* youtube.get_recent_videos_from_channel, run to its end with the clock   *)
(* at now: a name the module does not bind is a NameError                  *)
get_recent_videos_from_channel(d, url, delta, now) ==
  IF "datetime" \notin youtube_names THEN DbFail(d, "NameError")
  ELSE DbOk(d, get_videos_from_channel_within_timeframe(url, now - delta,
                                                        now))

RECURSIVE SermonsInserted(_, _)
(* the loop of populate_sermons_from_channel over the videos *)
SermonsInserted(d, videos) ==
  IF videos = <<>> THEN DbOk(d, <<>>)
  ELSE IF ~Head(videos).sermon THEN SermonsInserted(d, Tail(videos))
  ELSE Then(insert_video_sermon(d, Head(videos).url), LAMBDA s :
         SermonsInserted(s.db, Tail(videos)))

(* api.populate_sermons_from_channel *)
populate_sermons_from_channel(d, url, delta, now) ==
  Then(from_url(d, "YoutubeChannelHandler", url), LAMBDA c :
    Then(get_recent_videos_from_channel(d, url, delta, now), LAMBDA r :
      SermonsInserted(d, r.value)))

(* The API as a state machine: calls of the API and of the handlers, one   *)
(* after another, on a database that holds some documents already.         *)

Classes == {"YoutubeChannelHandler", "YoutubeVideoHandler", "ChurchHandler"}

(* the keys a handler of the class can be made from *)
KeysOf(cls) ==
  CASE cls = "YoutubeChannelHandler" -> Urls
    [] cls = "YoutubeVideoHandler" -> VideoUrls
    [] OTHER -> {g \in Gpids : from_google_place_id(<<>>, g).error = "none"}

(* the handlers a caller can hold *)
Handlers ==
  {h \in [cls : Classes, key : Urls \cup VideoUrls \cup Gpids] :
     h.key \in KeysOf(h.cls) /\ New(<<>>, h.cls, h.key).error = "none"}

Doc(i, k, l) == [id |-> i, key |-> k, link |-> l]

Field(f, i) == [field |-> f, ids |-> <<i>>]

(* the databases a run starts on: some of two channels, a church and a     *)
(* sermon of the first channel, unlinked, and the three of them linked     *)
Databases ==
  {d \in [channels : {<<>>, <<Doc(1, "u1", {})>>,
                       <<Doc(1, "u1", {}), Doc(2, "u2", {})>>},
          churches : {<<>>, <<Doc(3, "g1", {})>>},
          sermons : {<<>>, <<Doc(4, "v1", {})>>}] :
     d.sermons # <<>> => d.channels # <<>>}
  \cup
  {[channels |-> <<Doc(1, "u1", {Field("church", 3), Field("sermons", 4)})>>,
    churches |-> <<Doc(3, "g1", {})>>,
    sermons |-> <<Doc(4, "v1", {Field("channel", 1), Field("church", 3)})>>]}

(* the readings of the clock and the periods asked for *)
Nows == {9, 10}

Deltas == {2, 5}

NoCall(d) ==
  [op |-> "none", args |-> <<>>, error |-> "none", value |-> <<>>,
   before |-> d]

DbInit ==
  /\ req = NoReq
  /\ text = <<>>
  /\ books = KingJames1611
  /\ bible = [book_re_string |-> <<>>]
  /\ normalized = <<>>
  /\ refs = <<>>
  /\ result = <<>>
  /\ error = "none"
  /\ previous = <<>>
  /\ pc = "api"
  /\ NoSrt
  /\ NoProc
  /\ db \in Databases
  /\ call = NoCall(db)

(* the record of the call op(args) with the outcome r on the database d *)
Outcome(op, args, r, d) ==
  [op |-> op, args |-> args, error |-> r.error, value |-> r.value,
   before |-> d]

InsertChannel(url) ==
  /\ \E r \in {insert_channel(db, url)} :
        /\ db' = r.db
        /\ call' = Outcome("insert_channel", <<url>>, r, db)
  /\ UNCHANGED <<req, text, books, bible, normalized, refs, result, error,
                 previous, pc, srtVars, procVars>>

InsertChurch(gpid) ==
  /\ \E r \in {insert_church(db, gpid)} :
        /\ db' = r.db
        /\ call' = Outcome("insert_church", <<gpid>>, r, db)
  /\ UNCHANGED <<req, text, books, bible, normalized, refs, result, error,
                 previous, pc, srtVars, procVars>>

InsertChannelAndChurch(url, gpid) ==
  /\ \E r \in {insert_channel_and_church(db, url, gpid)} :
        /\ db' = r.db
        /\ call' = Outcome("insert_channel_and_church", <<url, gpid>>, r, db)
  /\ UNCHANGED <<req, text, books, bible, normalized, refs, result, error,
                 previous, pc, srtVars, procVars>>

InsertVideoSermon(url) ==
  /\ \E r \in {insert_video_sermon(db, url)} :
        /\ db' = r.db
        /\ call' = Outcome("insert_video_sermon", <<url>>, r, db)
  /\ UNCHANGED <<req, text, books, bible, normalized, refs, result, error,
                 previous, pc, srtVars, procVars>>

Link(a, b) ==
  /\ \E r \in {link(db, a, b)} :
        /\ db' = r.db
        /\ call' = Outcome("link", <<a, b>>, r, db)
  /\ UNCHANGED <<req, text, books, bible, normalized, refs, result, error,
                 previous, pc, srtVars, procVars>>

IsLinked(a, b) ==
  /\ \E r \in {is_linked(db, a, b)} :
        /\ db' = r.db
        /\ call' = Outcome("is_linked", <<a, b>>, r, db)
  /\ UNCHANGED <<req, text, books, bible, normalized, refs, result, error,
                 previous, pc, srtVars, procVars>>

GetRecentVideosFromChannel(url, delta, now) ==
  /\ \E r \in {get_recent_videos_from_channel(db, url, delta, now)} :
        /\ db' = r.db
        /\ call' = Outcome("get_recent_videos_from_channel",
                            <<url, delta, now>>, r, db)
  /\ UNCHANGED <<req, text, books, bible, normalized, refs, result, error,
                 previous, pc, srtVars, procVars>>

PopulateSermonsFromChannel(url, delta, now) ==
  /\ \E r \in {populate_sermons_from_channel(db, url, delta, now)} :
        /\ db' = r.db
        /\ call' = Outcome("populate_sermons_from_channel",
                            <<url, delta, now>>, r, db)
  /\ UNCHANGED <<req, text, books, bible, normalized, refs, result, error,
                 previous, pc, srtVars, procVars>>

DbNext ==
  \/ \E url \in Urls : InsertChannel(url)
  \/ \E gpid \in Gpids : InsertChurch(gpid)
  \/ \E url \in Urls, gpid \in Gpids : InsertChannelAndChurch(url, gpid)
  \/ \E url \in VideoUrls : InsertVideoSermon(url)
  \/ \E a \in Handlers, b \in Handlers : Link(a, b)
  \/ \E a \in Handlers, b \in Handlers : IsLinked(a, b)
  \/ \E url \in Urls, delta \in Deltas, now \in Nows :
        GetRecentVideosFromChannel(url, delta, now)
  \/ \E url \in Urls, delta \in Deltas, now \in Nows :
        PopulateSermonsFromChannel(url, delta, now)

DbSpec == DbInit /\ [][DbNext]_vars

----------------------------------------------------------------------------
(* Properties of extract *)

RECURSIVE PatLen(_), SumPatLen(_)
(* the length of a book pattern's text: a group costs "(?:" and ")", an    *)
(* optional one a "?" more, each further alternative a "|", \s two         *)
(* characters, the two lookbehinds before John 34                          *)
PatLen(re) ==
  CASE re.k = "lit" -> Len(re.s)
    [] re.k = "cls" -> 2
    [] re.k = "seq" -> SumPatLen(re.rs)
    [] re.k = "alt" -> 4 + SumPatLen(re.rs) + Len(re.rs) - 1
    [] re.k = "opt" -> 5 + PatLen(re.r)
    [] re.k = "notbehind" -> 34
    [] OTHER -> 0

SumPatLen(rs) ==
  IF rs = <<>> THEN 0 ELSE PatLen(Head(rs)) + SumPatLen(Tail(rs))

(* the first call has returned for a request of the given family *)
Asked(fam) == pc = "done" /\ req.fam = fam

(* the reference to one verse *)
OneVerse(b, c, v) == <<KingJames1611[b].name, c, v, c, v>>

(* "Name c:v" *)
ColonString(b, c, v) == KingJames1611[b].name \o Sp \o ColonRef(c, v)

(* "Name c:v1-v2", or "Name c:v" for a range of one verse *)
VerseRangeString(b, c, v1, v2) ==
  IF v1 = v2 THEN ColonString(b, c, v1)
  ELSE ColonString(b, c, v1) \o <<"-">> \o Str(v2)

(* C1: a text naming two valid references separated by ordinary words     *)
(* makes extract return both of them, in either order of appearance       *)
C1_BothReturned ==
  (Asked("two") /\ req.w1 \in WordSeparators) =>
     /\ error = "none"
     /\ Phrases[req.n[1]].canon \in Range(result)
     /\ Phrases[req.n[2]].canon \in Range(result)

(* C2: the colon-dash, the colon-space and the filler-word spelling of a   *)
(* chapter range all give the one reference c1:v1-c2:v2                    *)
C2_ChapterRangeForms ==
  Asked("chapter_range") =>
     /\ error = "none"
     /\ refs = << <<KingJames1611[req.b].name, req.n[1], req.n[2],
                    req.n[3], req.n[4]>> >>

(* C3: every spelled-out number of the text is replaced by its digits,     *)
(* whatever other number words the text holds                              *)
C3_NumbersReplaced ==
  Asked("numbers") =>
     normalized = Spoken(req.b) \o Sp \o Str(words2num(req.w1)) \o Sp
                  \o W_verse \o Sp \o Str(words2num(req.w2))

(* C4: the four spellings of a verse range v1 <= v2 in chapter c all give  *)
(* the one reference c:v1-v2, whose end chapter is its start chapter       *)
C4_VerseRangeForms ==
  (Asked("verse_range") /\ req.n[2] <= req.n[3]) =>
     /\ error = "none"
     /\ refs = << <<KingJames1611[req.b].name, req.n[1], req.n[2],
                    req.n[1], req.n[3]>> >>
     /\ result = <<VerseRangeString(req.b, req.n[1], req.n[2], req.n[3])>>

C4_Witness ==
  /\ Asked("verse_range")
  /\ req.form = "words"
  /\ req.b = 1
  /\ req.n = <<2, 3, 16>>
  /\ result = <<VerseRangeString(1, 2, 3, 16)>>

(* C5 as stated: any sequence of filler tokens between book and chapter    *)
(* and between chapter and verse leaves the reference Mark 8:34            *)
C5_AnyFillerSequence ==
  Asked("fill") => result = <<ColonString(req.b, req.n[1], req.n[2])>>

(* C5: filler words each followed by whitespace, between book and chapter  *)
(* and between chapter and verse, leave the reference Mark 8:34            *)
C5_SpacedFillerWords ==
  (Asked("fill") /\ req.form = "spaced") =>
     /\ error = "none"
     /\ refs = <<OneVerse(req.b, req.n[1], req.n[2])>>
     /\ result = <<ColonString(req.b, req.n[1], req.n[2])>>

C5_Witness ==
  /\ Asked("fill")
  /\ req.form = "spaced"
  /\ req.w1 = <<W_in, W_chapter>>
  /\ req.w2 = <<W_then, W_verse>>
  /\ result = <<ColonString(3, 8, 34)>>

(* C6: the digit, the Roman numeral, the cardinal, the ordinal and the     *)
(* ordinal number before a book name all give the same reference           *)
C6_NumeralForms ==
  Asked("numeral") =>
     LET b == NumeralBooks[req.b].b
     IN /\ error = "none"
        /\ refs = IF InTable(b, req.n[2], req.n[3])
                  THEN <<OneVerse(b, req.n[2], req.n[3])>>
                  ELSE <<>>
        /\ (Len(KingJames1611[b].vc) > 1 /\ InTable(b, req.n[2], req.n[3]))
             => result = <<ColonString(b, req.n[2], req.n[3])>>

C6_Witness ==
  /\ Asked("numeral")
  /\ NumeralBooks[req.b].forms[req.n[1]] = <<"s","e","c","o","n","d">>
  /\ req.n[3] = 16
  /\ result = <<ColonString(6, 1, 16)>>

(* C7: extracting from the joined strings of a result gives the same set   *)
(* of strings again                                                        *)
C7_Idempotent ==
  pc = "again" => (error = "none" /\ Range(result) = Range(previous))

C9_AliasSpellings ==
  Asked("alias") =>
     /\ error = "none"
     /\ refs = <<OneVerse(SongId, req.n[2], req.n[3])>>
     /\ result = <<ColonString(SongId, req.n[2], req.n[3])>>

C9_Witness ==
  /\ Asked("alias")
  /\ SongSpellings[req.n[1]]
       = <<"C","a","n","t","i","c","l","e"," ","o","f"," ","C","a","n","t","i","c","l","e","s">>
  /\ result = <<ColonString(SongId, 1, 2)>>

(* C10: a book name in lower, upper, title or mixed case before c:v gives  *)
(* the same reference, under the name the table holds                      *)
C10_AnyCase ==
  Asked("case") =>
     /\ error = "none"
     /\ refs = IF InTable(req.b, req.n[1], req.n[2])
               THEN <<OneVerse(req.b, req.n[1], req.n[2])>>
               ELSE <<>>
     /\ (Len(KingJames1611[req.b].vc) > 1
         /\ InTable(req.b, req.n[1], req.n[2]))
          => result = <<ColonString(req.b, req.n[1], req.n[2])>>

C10_Witness ==
  /\ Asked("case")
  /\ req.form = "upper"
  /\ text = <<"M","A","R","K"," ","1",":","2">>
  /\ result = <<ColonString(3, 1, 2)>>

(* the reference to the whole of chapter c *)
WholeChapter(b, c) ==
  <<KingJames1611[b].name, c, 1, c, KingJames1611[b].vc[c]>>

C14_LargeNumbersUntouched ==
  Asked("large_number") => normalized = text

VerseInBook(name, c, v) ==
  \E b \in BookIds :
     /\ KingJames1611[b].name = name
     /\ InTable(b, c, v)

(* C18: extract raises no error; every reference it returns has its start  *)
(* verse and its end verse within the verse count of their chapters, and a *)
(* match with a verse out of range leaves no entry                         *)
C18_SilentDiscard ==
  pc = "done" =>
     /\ error = "none"
     /\ \A i \in 1..Len(refs) :
           /\ VerseInBook(refs[i][1], refs[i][2], refs[i][3])
           /\ VerseInBook(refs[i][1], refs[i][4], refs[i][5])
     /\ (req.fam = "bounds" /\ ~InTable(req.b, req.n[1], req.n[2]))
          => refs = <<>>

----------------------------------------------------------------------------
(* Properties of the subtitle handler *)

(* the lines of the raw text s *)
LinesOf(s) == Split(s, Newline)

(* some line at position 3 modulo 4, counted from 0, is not empty *)
BadSeparator(s) ==
  \E i \in 1..Len(LinesOf(s)) : i % 4 = 0 /\ LinesOf(s)[i] # <<>>

(* C12: without allow_duplicates the returned list holds every extracted   *)
(* reference string once, in ascending order of the strings                *)
C12_SortedDistinct ==
  (pc = "extracted" /\ ~allow_duplicates /\ error = "none") =>
     /\ Range(result) = Range(previous)
     /\ \A i, j \in 1..Len(result) :
           i < j => StrLess(result[i], result[j])

C12_Witness ==
  /\ pc = "extracted"
  /\ ~allow_duplicates
  /\ transcript.caps = <<1, 2, 2>>
  /\ previous = <<Captions[1].canon, Captions[2].canon, Captions[2].canon>>
  /\ result = <<Captions[2].canon, Captions[1].canon>>

(* C13: with allow_duplicates set the returned list holds no string twice  *)
C13_NoDuplicatesWhenAllowed ==
  (pc = "extracted" /\ allow_duplicates /\ error = "none") =>
     \A i, j \in 1..Len(result) : i # j => result[i] # result[j]

(* C15: a transcript with a non-empty line at position 3 modulo 4 is       *)
(* rejected with the assertion's error, whatever its timecodes and index   *)
(* lines are, and no records and no references come back                   *)
C15_Rejected ==
  (pc # "ready" /\ BadSeparator(srt)) =>
     /\ error = "AssertionError"
     /\ document = <<>>
     /\ result = <<>>

C15_Witness ==
  /\ pc = "converted"
  /\ transcript.fault = "both"
  /\ transcript.at = 2
  /\ error = "AssertionError"

(* C16: a transcript of N well-formed blocks, with or without a blank line *)
(* after the last, converts into N records in the order of the blocks,     *)
(* each with the index as a number, the two times around the arrow without *)
(* their whitespace and the caption as it stands                           *)
C16_Records ==
  (pc = "converted" /\ transcript.fault = "none"
   /\ transcript.caps # <<>>) =>
     /\ error = "none"
     /\ Len(document) = Len(transcript.caps)
     /\ \A i \in 1..Len(transcript.caps) :
           document[i] = [caption |-> Captions[transcript.caps[i]].text,
                          frame |-> FrameBase + i,
                          start |-> Time(i),
                          end |-> Time(i + 1)]

C16_Witness ==
  /\ pc = "converted"
  /\ transcript.fault = "none"
  /\ transcript.caps = <<1, 2, 3>>
  /\ transcript.ending = <<"\n", "\n">>
  /\ Len(document) = 3
  /\ document[3].start = Time(3)

----------------------------------------------------------------------------
(* Properties of the process *)

(* C19: every call of the process on the text returns what every other     *)
(* call on it returned, the list in the same order and the same error,     *)
(* however many Bibles were constructed and calls made before it           *)
C19_Deterministic ==
  \A i \in 1..Len(outcomes) : \A j \in 1..Len(outcomes) :
     outcomes[i] = outcomes[j]

(* a third Bible is under construction, two calls have returned, and the   *)
(* last of them found Mark before Exodus and returned Exodus before Mark   *)
C19_Witness ==
  /\ constructed >= 3
  /\ Len(outcomes) >= 2
  /\ previous = <<Phrases[1].canon, Phrases[2].canon>>
  /\ result = <<Phrases[2].canon, Phrases[1].canon>>
  /\ outcomes[1].result = result

(* C20: in one process at most one Bible is constructed and stopwords.json *)
(* is read at most once                                                    *)
C20_ConstructedOnce == constructed <= 1 /\ loads <= 1

----------------------------------------------------------------------------
(* Properties of calls in parallel *)

(* C21: under every interleaving of the callers, every call that has       *)
(* returned has not failed and has returned what the call returns in a     *)
(* process of its own                                                      *)
C21_ParallelAsAlone ==
  \A i \in 1..Len(outcomes) :
     outcomes[i].error = "none" /\ outcomes[i] = alone

(* one call has returned II Timothy 1:16 while another caller, in the      *)
(* middle of its loop, holds the entry of II Timothy to write it back      *)
C21_Witness ==
  /\ Len(outcomes) >= 1
  /\ outcomes[1].result = <<ColonString(6, 1, 16)>>
  /\ \E t \in Callers :
        /\ callers[t].pc = "update"
        /\ callers[t].held[1].key = KingJames1611[6].key

----------------------------------------------------------------------------
(* Further properties of the subtitle handler *)

(* C25: convert_srt_into_document returns the records or fails with the    *)
(* AssertionError of the separator check, and in no other way              *)
C25_TwoOutcomes ==
  pc # "ready" => error \in {"none", "AssertionError"}

----------------------------------------------------------------------------
(* Properties of the API *)

(* is the place of the id a church or a place of worship *)
IsChurch(gpid) == PlaceTypes(gpid) \cap {"church", "place_of_worship"} # {}

(* does the database hold a document of the handler *)
Holds(d, h) == Matching(d, collection(h.cls), h.key) # <<>>

(* C22: a call of insert_channel, and one of insert_church on a place      *)
(* that is a church, raises nothing, leaves exactly one document of the    *)
(* channel (church) and changes nothing when the document was there        *)
C22_InsertOnce ==
  (\/ call.op = "insert_channel"
   \/ call.op = "insert_church" /\ IsChurch(call.args[1]))
  => /\ call.error = "none"
     /\ Len(Matching(db, IF call.op = "insert_channel" THEN "channels"
                         ELSE "churches", call.args[1])) = 1
     /\ (Matching(call.before,
                  IF call.op = "insert_channel" THEN "channels"
                  ELSE "churches", call.args[1]) # <<>>
         => db = call.before)

(* C23: a call of insert_channel_and_church on a place that is a church    *)
(* completes, and then both documents exist and each is linked to the      *)
(* other                                                                    *)
C23_BothLinked ==
  (call.op = "insert_channel_and_church"
   /\ IsChurch(call.args[2]))
  => /\ call.error = "none"
     /\ Matching(db, "channels", call.args[1]) # <<>>
     /\ Matching(db, "churches", call.args[2]) # <<>>
     /\ FieldIds(Matching(db, "channels", call.args[1])[1].link, "church")
          = <<Matching(db, "churches", call.args[2])[1].id>>
     /\ Matching(db, "channels", call.args[1])[1].id \in
          UNION {Range(l.ids) :
                   l \in Matching(db, "churches", call.args[2])[1].link}

(* C24: a call a.link(b) of a channel and a sermon, or of a sermon and a   *)
(* channel, that both have documents returns, and then a is linked to b;   *)
(* the sermons of a channel accumulate, the channel of a sermon is the     *)
(* latest one                                                               *)
C24_LinkTypes ==
  (/\ call.op = "link"
   /\ call.args[1].cls # call.args[2].cls
   /\ Holds(call.before, call.args[1])
   /\ Holds(call.before, call.args[2]))
  => /\ call.error = "none"
     /\ Matching(db, collection(call.args[2].cls), call.args[2].key)[1].id
          \in Range(FieldIds(
                 Matching(db, collection(call.args[1].cls),
                          call.args[1].key)[1].link,
                 IF call.args[1].cls = "YoutubeChannelHandler"
                 THEN "sermons" ELSE "channel"))
     /\ Range(FieldIds(
                Matching(call.before, "channels", call.args[1].key)[1].link,
                "sermons"))
          \subseteq
          Range(FieldIds(
                Matching(db, "channels", call.args[1].key)[1].link,
                "sermons"))

(* C26: a call a.link(b) raises AssertionError when a or b has no          *)
(* document, ValueError when both have one and the class of a has no link  *)
(* to the class of b, and in both cases leaves the database as it was      *)
C26_LinkRaises ==
  call.op = "link"
  => /\ (~Holds(call.before, call.args[1])
         \/ ~Holds(call.before, call.args[2]))
        => call.error = "AssertionError" /\ db = call.before
     /\ (/\ Holds(call.before, call.args[1])
         /\ Holds(call.before, call.args[2])
         /\ call.args[1].cls = call.args[2].cls)
        => call.error = "ValueError" /\ db = call.before

(* C27: every sermon of the database has the document of its channel, and  *)
(* a call of insert_video_sermon for a video whose channel has no          *)
(* document raises AssertionError and inserts nothing                      *)
C27_SermonsHaveChannels ==
  /\ \A i \in 1..Len(db.sermons) :
        Matching(db, "channels", YouTube(db.sermons[i].key).channel_url)
          # <<>>
  /\ (call.op = "insert_video_sermon"
      /\ Matching(call.before, "channels",
                  YouTube(call.args[1]).channel_url) = <<>>)
     => call.error = "AssertionError" /\ db = call.before

(* C28: a call of get_recent_videos_from_channel yields the videos of the  *)
(* channel published from now - delta to now, both ends included, in       *)
(* channel order                                                            *)
C28_RecentVideos ==
  call.op = "get_recent_videos_from_channel"
  => /\ call.error = "none"
     /\ call.value =
          SelectSeq(ChannelVideos(call.args[1]),
                    LAMBDA v : /\ v.publish_date >= call.args[3] - call.args[2]
                               /\ v.publish_date <= call.args[3])

(* every call of DbSpec raises, and none changes the database *)
DbEveryCallRaises ==
  call.op # "none" => call.error # "none" /\ db = call.before

----------------------------------------------------------------------------
(* Properties of the captions *)

(* C29: the text searched is the captions alone, joined by one space in    *)
(* the order of the blocks, and a reference broken over two captions is    *)
(* returned as the same text on one line returns it                        *)
C29_CaptionsOnly ==
  pc = "extracted"
  => /\ error = "none"
     /\ text = OneLine(transcript)
     /\ previous = Call(KingJames1611, OneLine(transcript)).result

C29_Witness ==
  /\ pc = "extracted"
  /\ transcript.caps = <<4, 5>>
  /\ text = <<"t","u","r","n"," ","t","o"," ","m","a","r","k"," ",
              "8",":","3","4"," ","n","o","w">>
  /\ result = <<Captions[1].canon>>

(* the record of the i-th element of the track *)
RecordOf(el, i) ==
  [caption |-> CaptionOf(strip(el.text)),
   frame |-> i,
   start |-> float_to_srt_time_format(el.t),
   end |-> float_to_srt_time_format(el.t + Duration(el))]

RECURSIVE RecordsOf(_, _)
(* the records of the elements from the i-th on that are not skipped *)
RecordsOf(track, i) ==
  IF i > Len(track) THEN <<>>
  ELSE IF i \in Voiced(track)
  THEN <<RecordOf(track[i], i)>> \o RecordsOf(track, i + 1)
  ELSE RecordsOf(track, i + 1)

(* C30: the transcript xml_caption_to_srt writes for a caption track is    *)
(* decomposed without an error, into one record for each element whose     *)
(* text is not blank, in order, with the number, times and text of the     *)
(* element                                                                  *)
C30_RoundTrip ==
  pc = "converted"
  => /\ error = "none"
     /\ document = RecordsOf(xml_captions, 1)
====
